---------------------------- MODULE Spec2Model ----------------------------
(***************************************************************************)
(* Model of the design-token extractor (yoink): CSS custom-property        *)
(* resolution, theme classification of selectors, greedy clustering of     *)
(* button/card samples, and hex colour parsing.  Strings are TLA+ strings  *)
(* and the regular expressions of the source are evaluated character by    *)
(* character.                                                              *)
(***************************************************************************)
EXTENDS Integers, Sequences, FiniteSets, TLC

VARIABLES
    cssVars,     \* contentScript.js cssVars: name -> theme -> raw value
    rEntry,      \* the (name, theme) entry whose value is being resolved
    resolved,    \* resolveCSSVarReferences: local `resolved`
    iterations,  \* resolveCSSVarReferences: local `iterations`
    rpc,         \* position in resolveCSSVarReferences: off / idle / loop / done
    selector,    \* rule.selectorText || '' of the rule being classified
    themeCs,     \* result of contentScript.js getThemeFromSelector ("" before the call)
    themeBg,     \* result of background.ts getThemeFromSelector ("" before the call)
    themeDom,    \* result of the third copy of getThemeFromSelector ("" before the call)
    colorIn,     \* the colour string handed to the colour parsers
    parsed,      \* result of parseColorToRGB(colorIn)
    normalized,  \* result of normalizeToRGB(colorIn)
    parseCalls,  \* arguments of the calls parseColorToRGB has made to itself, in order
    conversion,  \* what the browser answered at the latest conversion, or NotCalled
    elements,    \* extractButtons: the button elements visited so far, in document order
    buttons,     \* extractButtons: local `buttons`
    members,     \* for each entry of `buttons`, the positions in `elements` it counts
    bResult,     \* value returned by extractButtons
    bpc,         \* position in extractButtons: off / run / done
    cards,       \* extractCards: local `cards`
    seen,        \* extractCards: local `seen`, signature -> position in `cards`
    cVisited,    \* extractCards: number of elements visited so far
    cResult,     \* value returned by extractCards
    cpc,         \* position in extractCards: off / run / done
    inbox,       \* messages sent to the page and not yet dispatched, oldest first
    msgAction,   \* for each message, its request.action
    runPos,      \* for each message, the position of its run of the listener
    scanLog,     \* the starts and ends of the listener's runs, in order
    responses,   \* the responses sent so far, in order
    shadowToElements,  \* extractShadowsWithUsage: box-shadow value -> number of uses
    shadowsVisited,    \* extractShadowsWithUsage: elements visited so far
    tierBounds,        \* the blur+spread magnitudes at which the elevation tiers begin
    shadowGroups,      \* extractShadowsWithUsage: local `shadowGroups`
    spc,               \* position in extractShadowsWithUsage: off / collect / done
    sheets,      \* the rule lists of the page's stylesheets, in document order
    sheetsScanned,     \* extractCSSCustomProperties: stylesheets parsed so far
    tableCs,     \* contentScript.js: cssVars of extractCSSCustomProperties
    tableBg,     \* background.ts: cssVars of extractCSSCustomProperties
    loadingDisplay,    \* popup: loadingDiv.style.display
    outputDisplay,     \* popup: outputDiv.style.display
    statusDisplay,     \* popup: statusDiv.style.display
    statusClass,       \* popup: statusDiv.className
    buttonsDisplay,    \* popup: style.display of the copy and download buttons
    currentMarkdown,   \* popup: currentMarkdown
    scansInFlight,     \* popup: scan clicks whose handler has not finished
    copiesInFlight,    \* popup: clipboard writes not yet settled
    timers,            \* popup: timeouts of showStatus not yet fired
    clicks,            \* popup: clicks of the user so far
    clicksAtError,     \* popup: the value of clicks when showError was last called
    dom,               \* cache: the elements of the document
    cachedElements,    \* cache: cachedElements
    computedStyleCache, \* cache: computedStyleCache, element -> style object
    cacheOps,          \* cache: calls made so far; a new object is named by its call
    opsAtClear,        \* cache: the value of cacheOps at the last clearCaches
    cacheReturn,       \* cache: what the last call returned
    page,              \* tree: the document under document.body
    treeResult,        \* tree: what extractDOMTree returned
    oracle             \* colour: what the browser answers for each string it is asked

resolveVars == <<cssVars, rEntry, resolved, iterations, rpc>>

themeVars == <<selector, themeCs, themeBg, themeDom>>

colorVars == <<colorIn, parsed, normalized, parseCalls, conversion>>

buttonVars == <<elements, buttons, members, bResult, bpc>>

cardVars == <<cards, seen, cVisited, cResult, cpc>>

scanVars == <<inbox, msgAction, runPos, scanLog, responses>>

\* the components added after the clustering passes
shadowVars == <<shadowToElements, shadowsVisited, tierBounds, shadowGroups, spc>>

tableVars == <<sheets, sheetsScanned, tableCs, tableBg>>

popupVars == <<loadingDisplay, outputDisplay, statusDisplay, statusClass, buttonsDisplay,
               currentMarkdown, scansInFlight, copiesInFlight, timers, clicks, clicksAtError>>

cacheVars == <<dom, cachedElements, computedStyleCache, cacheOps, opsAtClear, cacheReturn>>

treeVars == <<page, treeResult>>

lateVars == <<popupVars, cacheVars, treeVars, oracle>>

restVars == <<scanVars, shadowVars, tableVars, lateVars>>

vars == <<cssVars, rEntry, resolved, iterations, rpc, selector, themeCs, themeBg, themeDom,
          colorIn, parsed, normalized, parseCalls, conversion, elements, buttons, members, bResult, bpc,
          cards, seen, cVisited, cResult, cpc, restVars>>

-----------------------------------------------------------------------------
(* JavaScript string primitives *)

Ch(s, i) == SubSeq(s, i, i)

Min(S) == CHOOSE x \in S : \A y \in S : x <= y

\* s.startsWith(p, i-1)
StartsAt(s, i, p) ==
    /\ i >= 1
    /\ i + Len(p) - 1 <= Len(s)
    /\ SubSeq(s, i, i + Len(p) - 1) = p

\* s.includes(p)
includes(s, p) == \E i \in 1..(Len(s) - Len(p) + 1) : StartsAt(s, i, p)

\* s.indexOf(p) + 1 (0 when absent)
IndexOf(s, p) ==
    LET I == {i \in 1..(Len(s) - Len(p) + 1) : StartsAt(s, i, p)}
    IN  IF I = {} THEN 0 ELSE Min(I)

CharsOf(s) == {Ch(s, i) : i \in 1..Len(s)}

LowerLetters == "abcdefghijklmnopqrstuvwxyz"
UpperLetters == "ABCDEFGHIJKLMNOPQRSTUVWXYZ"
Digits == "0123456789"

\* the character class [a-zA-Z0-9-]
NameChars == CharsOf(LowerLetters) \cup CharsOf(UpperLetters) \cup CharsOf(Digits) \cup {"-"}

\* the character class \s (the members a CSS value can hold)
SpaceChars == {" ", "\t", "\n", "\r", "\f"}

\* GetSubstitution of String.prototype.replace for a string pattern:
\* $$ -> $, $& -> the match, $' -> the text after it.  (The fourth pattern,
\* dollar-backquote -> the text before the match, needs a backquote in the
\* replacement; no value of this model holds one.)
RECURSIVE GetSubstitution(_, _, _)
GetSubstitution(repl, matched, after) ==
    IF repl = "" THEN ""
    ELSE IF Ch(repl, 1) = "$" /\ Len(repl) >= 2 /\ Ch(repl, 2) \in {"$", "&", "'"}
    THEN (CASE Ch(repl, 2) = "$" -> "$"
            [] Ch(repl, 2) = "&" -> matched
            [] OTHER -> after)
         \o GetSubstitution(SubSeq(repl, 3, Len(repl)), matched, after)
    ELSE Ch(repl, 1) \o GetSubstitution(SubSeq(repl, 2, Len(repl)), matched, after)

\* s.replace(pat, repl) with a string pattern: the first occurrence only
Replace(s, pat, repl) ==
    LET i == IndexOf(s, pat)
        before == SubSeq(s, 1, i - 1)
        after == SubSeq(s, i + Len(pat), Len(s))
    IN  IF i = 0 THEN s
        ELSE before \o GetSubstitution(repl, pat, after) \o after

-----------------------------------------------------------------------------
(* Each behaviour exercises one part of the extractor; the other parts are   *)
(* at rest, in the states below.                                             *)

Null == [kind |-> "null"]

NotCalled == [kind |-> "none"]

ResolveOff ==
    /\ cssVars = [n \in {} |-> ""]
    /\ rEntry = <<"", "">>
    /\ resolved = ""
    /\ iterations = 0
    /\ rpc = "off"

ThemeOff ==
    /\ selector = ""
    /\ themeCs = ""
    /\ themeBg = ""
    /\ themeDom = ""

ColorOff ==
    /\ colorIn = ""
    /\ parsed = NotCalled
    /\ normalized = NotCalled
    /\ parseCalls = <<>>
    /\ conversion = NotCalled

ButtonOff ==
    /\ elements = <<>>
    /\ buttons = <<>>
    /\ members = <<>>
    /\ bResult = NotCalled
    /\ bpc = "off"

CardOff ==
    /\ cards = <<>>
    /\ seen = [sig \in {} |-> 0]
    /\ cVisited = 0
    /\ cResult = NotCalled
    /\ cpc = "off"

ScanOff ==
    /\ inbox = <<>>
    /\ msgAction = <<>>
    /\ runPos = <<>>
    /\ scanLog = <<>>
    /\ responses = <<>>

ShadowOff ==
    /\ shadowToElements = <<>>
    /\ shadowsVisited = 0
    /\ tierBounds = <<>>
    /\ shadowGroups = NotCalled
    /\ spc = "off"

TableOff ==
    /\ sheets = <<>>
    /\ sheetsScanned = 0
    /\ tableCs = <<>>
    /\ tableBg = <<>>

PopupOff ==
    /\ loadingDisplay = "none"
    /\ outputDisplay = "none"
    /\ statusDisplay = "none"
    /\ statusClass = ""
    /\ buttonsDisplay = "none"
    /\ currentMarkdown = ""
    /\ scansInFlight = 0
    /\ copiesInFlight = 0
    /\ timers = 0
    /\ clicks = 0
    /\ clicksAtError = 0

CacheOff ==
    /\ dom = {}
    /\ cachedElements = Null
    /\ computedStyleCache = <<>>
    /\ cacheOps = 0
    /\ opsAtClear = 0
    /\ cacheReturn = NotCalled

TreeOff ==
    /\ page = Null
    /\ treeResult = NotCalled

OracleOff == oracle = <<>>

LateOff == PopupOff /\ CacheOff /\ TreeOff /\ OracleOff

RestOff == ScanOff /\ ShadowOff /\ TableOff /\ LateOff

-----------------------------------------------------------------------------
(* contentScript.js: resolveCSSVarReferences *)

maxIterations == 10

NoMatch == [ok |-> FALSE, index |-> 0, last |-> 0, name |-> "",
            hasFallback |-> FALSE, fallback |-> ""]

\* end of the longest run of [a-zA-Z0-9-] starting at i (i-1 when there is none)
NameEnd(s, i) ==
    CHOOSE j \in (i - 1)..Len(s) :
        /\ \A k \in i..j : Ch(s, k) \in NameChars
        /\ j = Len(s) \/ Ch(s, j + 1) \notin NameChars

\* ,\s*([^)]+) applied to the text t between the comma and the first ")":
\* \s* is greedy but gives one character back when t is all white space
FallbackGroup(t) ==
    LET k == CHOOSE j \in 0..Len(t) :
                 /\ \A i \in 1..j : Ch(t, i) \in SpaceChars
                 /\ j = Len(t) \/ Ch(t, j + 1) \notin SpaceChars
    IN  IF k = Len(t) THEN Ch(t, Len(t)) ELSE SubSeq(t, k + 1, Len(t))

\* /var\((--[a-zA-Z0-9-]+)(?:,\s*([^)]+))?\)/ anchored at position i
VarMatchAt(s, i) ==
    IF ~StartsAt(s, i, "var(--") THEN NoMatch
    ELSE
      LET ne == NameEnd(s, i + 6)
          nm == SubSeq(s, i + 4, ne)
      IN  IF ne < i + 6 \/ ne = Len(s) THEN NoMatch
          ELSE IF Ch(s, ne + 1) = ")"
          THEN [ok |-> TRUE, index |-> i, last |-> ne + 1, name |-> nm,
                hasFallback |-> FALSE, fallback |-> ""]
          ELSE IF Ch(s, ne + 1) = ","
          THEN LET C == {j \in (ne + 2)..Len(s) : Ch(s, j) = ")"}
               IN  IF C = {} \/ Min(C) = ne + 2 THEN NoMatch
                   ELSE [ok |-> TRUE, index |-> i, last |-> Min(C), name |-> nm,
                         hasFallback |-> TRUE,
                         fallback |-> FallbackGroup(SubSeq(s, ne + 2, Min(C) - 1))]
          ELSE NoMatch

\* varRegex.exec(resolved) with lastIndex = 0: the leftmost match
VarRegexExec(s) ==
    LET I == {i \in 1..Len(s) : VarMatchAt(s, i).ok}
    IN  IF I = {} THEN NoMatch ELSE VarMatchAt(s, Min(I))

\* match[0]
MatchText(s, m) == SubSeq(s, m.index, m.last)

\* cssVars[name]?.[theme], "" standing for undefined as well (both are falsy)
ThemeValue(table, name, theme) ==
    IF name \in DOMAIN table /\ theme \in DOMAIN table[name]
    THEN table[name][theme] ELSE ""

\* the lookup chain without its last alternative, match[0]
LookupVarValue_DropsToken(table, s, m, theme) ==
    IF ThemeValue(table, m.name, theme) # "" THEN ThemeValue(table, m.name, theme)
    ELSE IF ThemeValue(table, m.name, "light") # "" THEN ThemeValue(table, m.name, "light")
    ELSE IF m.hasFallback THEN m.fallback
    ELSE ""

\* cssVars[varName]?.[theme] || cssVars[varName]?.['light'] || fallback || match[0]
LookupVarValue(table, s, m, theme) ==
    IF ThemeValue(table, m.name, theme) # "" THEN ThemeValue(table, m.name, theme)
    ELSE IF ThemeValue(table, m.name, "light") # "" THEN ThemeValue(table, m.name, "light")
    ELSE IF m.hasFallback THEN m.fallback
    ELSE MatchText(s, m)

\* the loop condition with the bound off by one
LoopGuard_OffByOne(s, n) == VarRegexExec(s).ok /\ n <= maxIterations

\* the condition of the while loop
LoopGuard(s, n) == VarRegexExec(s).ok /\ n < maxIterations

\* one pass through the body of the while loop
Substitute(table, s, theme) ==
    LET m == VarRegexExec(s)
    IN  Replace(s, MatchText(s, m), LookupVarValue(table, s, m, theme))

\* the value resolveCSSVarReferences returns from a loop position
RECURSIVE ResolveFrom(_, _, _, _)
ResolveFrom(table, s, n, theme) ==
    IF LoopGuard(s, n) THEN ResolveFrom(table, Substitute(table, s, theme), n + 1, theme)
    ELSE s

resolveCSSVarReferences(value, table, theme) == ResolveFrom(table, value, 0, theme)

-----------------------------------------------------------------------------
(* The variable table the resolver runs against.  parseCSSRules stores one   *)
(* trimmed value per (name, theme); a name is present only with a theme.     *)

Themes == {"light", "dark"}

\* values declared for --a, --b and --c; --m is declared nowhere.
\* "" is the trimmed value of an empty declaration such as `--a: ;`
AValues == {"var(--b)", ""}
BValues == {"var(--a)", "#000"}
\* the last one holds eleven tokens
CValues == {"var(--m, #000)", "var(--m)", "var(--a, #fff)", "var(--m) var(--b)",
            "var(--a) var(--b)", "calc(var(--b,  1px) + var(--m, ))", "$&x", "var(--c)",
            "var(--b) var(--b) var(--b) var(--b) var(--b) var(--b) var(--b) var(--b) var(--b) var(--b) var(--b)"}

ThemeMaps(V) == UNION {[T -> V] : T \in SUBSET Themes}

OneTheme(V) == UNION {[{t} -> V] : t \in Themes}

Tables ==
    {[n \in {k \in {"--a", "--b", "--c"} :
                DOMAIN (CASE k = "--a" -> a [] k = "--b" -> b [] OTHER -> c) # {}}
        |-> CASE n = "--a" -> a [] n = "--b" -> b [] OTHER -> c] :
     a \in ThemeMaps(AValues), b \in ThemeMaps(BValues), c \in OneTheme(CValues)}

ResolveInit ==
    /\ cssVars \in Tables
    /\ rEntry = <<"", "">>
    /\ resolved = ""
    /\ iterations = 0
    /\ rpc = "idle"
    /\ ThemeOff
    /\ ColorOff
    /\ ButtonOff
    /\ CardOff
    /\ RestOff

\* buildColorLookupMap: resolveCSSVarReferences(value, cssVars, theme) for an
\* entry of the table; the function's prologue
ResolveCall ==
    /\ rpc = "idle"
    /\ \E name \in DOMAIN cssVars : \E theme \in DOMAIN cssVars[name] :
          /\ rEntry' = <<name, theme>>
          /\ resolved' = cssVars[name][theme]
    /\ iterations' = 0
    /\ rpc' = "loop"
    /\ UNCHANGED <<cssVars, themeVars, colorVars, buttonVars, cardVars, restVars>>

\* one iteration of the while loop
ResolveIter ==
    /\ rpc = "loop"
    /\ LoopGuard(resolved, iterations)
    /\ resolved' = Substitute(cssVars, resolved, rEntry[2])
    /\ iterations' = iterations + 1
    /\ UNCHANGED <<cssVars, rEntry, rpc, themeVars, colorVars, buttonVars, cardVars, restVars>>

\* the loop condition fails: return resolved
ResolveReturn ==
    /\ rpc = "loop"
    /\ ~LoopGuard(resolved, iterations)
    /\ rpc' = "done"
    /\ UNCHANGED <<cssVars, rEntry, resolved, iterations, themeVars, colorVars, buttonVars, cardVars, restVars>>

ResolveNext == ResolveCall \/ ResolveIter \/ ResolveReturn

ResolveSpec == ResolveInit /\ [][ResolveNext]_vars

-----------------------------------------------------------------------------
(* getThemeFromSelector: contentScript.js, background.ts and a third copy *)

\* String.prototype.toLowerCase on the ASCII letters
RECURSIVE toLowerCase(_)
toLowerCase(s) ==
    IF s = "" THEN ""
    ELSE LET c == Ch(s, 1)
             I == {i \in 1..26 : Ch(UpperLetters, i) = c}
         IN  (IF I = {} THEN c ELSE Ch(LowerLetters, Min(I)))
             \o toLowerCase(SubSeq(s, 2, Len(s)))

\* the dark-mode test shared by the three copies, with `.dark` compared for
\* equality instead of searched for
IsDarkSelector_Equality(lower) ==
    \/ lower = ".dark"
    \/ lower = "[data-theme=\"dark\"]"
    \/ lower = "[data-theme='dark']"
    \/ lower = "[theme=\"dark\"]"
    \/ lower = ".theme-dark"

\* the dark-mode test without the [theme="dark"] marker
IsDarkSelector_NoThemeAttr(lower) ==
    \/ includes(lower, ".dark")
    \/ includes(lower, "[data-theme=\"dark\"]")
    \/ includes(lower, "[data-theme='dark']")
    \/ includes(lower, ".theme-dark")

\* the dark-mode test shared by the three copies
IsDarkSelector(lower) ==
    \/ includes(lower, ".dark")
    \/ includes(lower, "[data-theme=\"dark\"]")
    \/ includes(lower, "[data-theme='dark']")
    \/ includes(lower, "[theme=\"dark\"]")
    \/ includes(lower, ".theme-dark")

\* explicit light markers of contentScript.js
IsLightSelector(lower) ==
    \/ includes(lower, ".light")
    \/ includes(lower, "[data-theme=\"light\"]")
    \/ includes(lower, "[data-theme='light']")

\* :root, html and body of contentScript.js
IsRootSelector(lower) ==
    includes(lower, ":root") \/ lower = "html" \/ lower = "body"

QuoteChars == {"\"", "'"}

\* /\[data-theme=["']?([^"'\]]+)["']?\]/ anchored at i: match[1], or "" when
\* the pattern does not match there
DataThemeMatchAt(s, i) ==
    IF ~StartsAt(s, i, "[data-theme=") THEN ""
    ELSE
      LET p == i + 12
          q == IF p <= Len(s) /\ Ch(s, p) \in QuoteChars THEN p + 1 ELSE p
          e == CHOOSE j \in (q - 1)..Len(s) :
                   /\ \A k \in q..j : Ch(s, k) \notin QuoteChars \cup {"]"}
                   /\ j = Len(s) \/ Ch(s, j + 1) \in QuoteChars \cup {"]"}
      IN  IF e < q \/ e = Len(s) THEN ""
          ELSE IF Ch(s, e + 1) = "]" THEN SubSeq(s, q, e)
          ELSE IF e + 2 <= Len(s) /\ Ch(s, e + 2) = "]" THEN SubSeq(s, q, e)
          ELSE ""

\* lower.match(...): match[1] of the leftmost match, "" for null
DataThemeMatch(s) ==
    LET I == {i \in 1..Len(s) : DataThemeMatchAt(s, i) # ""}
    IN  IF I = {} THEN "" ELSE DataThemeMatchAt(s, Min(I))

\* contentScript.js
getThemeFromSelector(sel) ==
    LET lower == toLowerCase(sel)
    IN  IF IsDarkSelector(lower) THEN "dark"
        ELSE IF IsLightSelector(lower) THEN "light"
        ELSE IF IsRootSelector(lower) THEN "light"
        ELSE IF includes(lower, "[data-theme=") /\ DataThemeMatch(lower) # ""
             THEN DataThemeMatch(lower)
        ELSE "light"

\* background.ts
getThemeFromSelector_background(sel) ==
    LET lower == toLowerCase(sel)
    IN  IF IsDarkSelector(lower) THEN "dark" ELSE "light"

\* the third copy (stylesheet extractor)
getThemeFromSelector_extractor(sel) ==
    LET lower == toLowerCase(sel)
    IN  IF IsDarkSelector(lower) THEN "dark" ELSE "light"

\* pieces of selector text; a selector is one or two of them
SelectorPieces ==
    {"", ":root", "html", "body", " button", ".dark", ".theme-dark", ".Dark",
     "[data-theme=\"dark\"]", "[data-theme='dark']", "[theme=\"dark\"]",
     ".light", "[data-theme=\"custom\"]", "[data-theme=Brand]", "[data-theme=\"x",
     ".card"}

Selectors == {a \o b : a \in SelectorPieces, b \in SelectorPieces}

ThemeInit ==
    /\ selector \in Selectors
    /\ themeCs = ""
    /\ themeBg = ""
    /\ themeDom = ""
    /\ ResolveOff
    /\ ColorOff
    /\ ButtonOff
    /\ CardOff
    /\ RestOff

\* parseCSSRules of contentScript.js classifies the rule
ClassifyContentScript ==
    /\ rpc = "off"
    /\ themeCs = ""
    /\ themeCs' = getThemeFromSelector(selector)
    /\ UNCHANGED <<selector, themeBg, themeDom, resolveVars, colorVars, buttonVars, cardVars, restVars>>

\* background.ts classifies the rule
ClassifyBackground ==
    /\ rpc = "off"
    /\ themeBg = ""
    /\ themeBg' = getThemeFromSelector_background(selector)
    /\ UNCHANGED <<selector, themeCs, themeDom, resolveVars, colorVars, buttonVars, cardVars, restVars>>

\* the stylesheet extractor classifies the rule
ClassifyExtractor ==
    /\ rpc = "off"
    /\ themeDom = ""
    /\ themeDom' = getThemeFromSelector_extractor(selector)
    /\ UNCHANGED <<selector, themeCs, themeBg, resolveVars, colorVars, buttonVars, cardVars, restVars>>

ThemeNext == ClassifyContentScript \/ ClassifyBackground \/ ClassifyExtractor

ThemeSpec == ThemeInit /\ [][ThemeNext]_vars

-----------------------------------------------------------------------------
(* Colour parsing: parseColorToRGB (component detector) and normalizeToRGB   *)
(* (background.ts).  A number that JavaScript computes as NaN is -1 here.    *)

NaN == -1

RGB(r, g, b) == [kind |-> "rgb", r |-> r, g |-> g, b |-> b]

Str(v) == [kind |-> "string", value |-> v]

HexDigits == "0123456789abcdef"

UpperHexDigits == "0123456789ABCDEF"

\* value of one digit in the given radix, NaN when it is no digit of it
DigitValue(c, radix) ==
    LET I == {i \in 1..radix : Ch(HexDigits, i) = c \/ Ch(UpperHexDigits, i) = c}
    IN  IF I = {} THEN NaN ELSE Min(I) - 1

\* parseInt(s, radix) for a string without sign or white space: the value of
\* the longest prefix of digits, NaN when the first character is no digit
RECURSIVE ParseIntFrom(_, _, _, _)
ParseIntFrom(s, i, radix, acc) ==
    LET digit == IF i > Len(s) THEN NaN ELSE DigitValue(Ch(s, i), radix)
    IN  IF digit = NaN THEN acc
        ELSE ParseIntFrom(s, i + 1, radix, (IF acc = NaN THEN 0 ELSE acc * radix) + digit)

parseInt(s, radix) == ParseIntFrom(s, 1, radix, NaN)

\* end of the longest run of characters of class C starting at i
RECURSIVE RunEnd(_, _, _)
RunEnd(s, i, C) ==
    IF i <= Len(s) /\ Ch(s, i) \in C THEN RunEnd(s, i + 1, C) ELSE i - 1

DigitChars == CharsOf(Digits)

\* (\d+),\s*(\d+),\s*(\d+) from position i on, given the groups
\* matched before it: the three groups, or <<>> when the text does not match
RECURSIVE RgbaGroupsFrom(_, _, _)
RgbaGroupsFrom(s, i, groups) ==
    LET last == RunEnd(s, i, DigitChars)
    IN  IF last < i THEN <<>>
        ELSE IF Len(groups) = 2 THEN Append(groups, SubSeq(s, i, last))
        ELSE IF last >= Len(s) \/ Ch(s, last + 1) # "," THEN <<>>
        ELSE RgbaGroupsFrom(s, RunEnd(s, last + 2, SpaceChars) + 1,
                            Append(groups, SubSeq(s, i, last)))

\* /rgba?\((\d+),\s*(\d+),\s*(\d+)/ anchored at i: the three groups, or <<>>
RgbaMatchAt(s, i) ==
    IF StartsAt(s, i, "rgb(") THEN RgbaGroupsFrom(s, i + 4, <<>>)
    ELSE IF StartsAt(s, i, "rgba(") THEN RgbaGroupsFrom(s, i + 5, <<>>)
    ELSE <<>>

\* color.match(...): the groups of the leftmost match, <<>> for null
RECURSIVE RgbaMatchFrom(_, _)
RgbaMatchFrom(s, i) ==
    IF i > Len(s) THEN <<>>
    ELSE LET groups == RgbaMatchAt(s, i)
         IN  IF groups # <<>> THEN groups ELSE RgbaMatchFrom(s, i + 1)

RgbaMatch(s) == RgbaMatchFrom(s, 1)

\* the hex branch of parseColorToRGB: the result, Null when it falls through
ParseHex(color) ==
    LET hex == SubSeq(color, 2, Len(color))
    IN  IF Len(hex) = 3
        THEN RGB(parseInt(Ch(hex, 1) \o Ch(hex, 1), 16),
                 parseInt(Ch(hex, 2) \o Ch(hex, 2), 16),
                 parseInt(Ch(hex, 3) \o Ch(hex, 3), 16))
        ELSE IF Len(hex) = 6
        THEN RGB(parseInt(SubSeq(hex, 1, 2), 16),
                 parseInt(SubSeq(hex, 3, 4), 16),
                 parseInt(SubSeq(hex, 5, 6), 16))
        ELSE Null

\* numbers with a fraction are held as integers scaled by Scale
Scale == 10000

\* x * y of two scaled numbers
Mul(x, y) == (x * y) \div Scale

\* the text after an optional minus sign
Unsigned(s) == IF Ch(s, 1) = "-" THEN SubSeq(s, 2, Len(s)) ELSE s

\* parseFloat(s) is NaN unless a digit, or a point and a digit, follows the
\* optional sign
IsNaNText(s) ==
    ~ (\/ Unsigned(s) # "" /\ Ch(Unsigned(s), 1) \in DigitChars
       \/ /\ Len(Unsigned(s)) >= 2
          /\ Ch(Unsigned(s), 1) = "."
          /\ Ch(Unsigned(s), 2) \in DigitChars)

\* the first four digits after the point of the unsigned text u whose whole
\* part ends at position intEnd
FractionOf(u, intEnd) ==
    IF intEnd < Len(u) /\ Ch(u, intEnd + 1) = "."
    THEN parseInt(SubSeq(SubSeq(u, intEnd + 2, RunEnd(u, intEnd + 2, DigitChars))
                         \o "0000", 1, 4), 10)
    ELSE 0

MagnitudeOf(u, intEnd) ==
    (IF intEnd >= 1 THEN parseInt(SubSeq(u, 1, intEnd), 10) * Scale ELSE 0)
    + FractionOf(u, intEnd)

\* parseFloat of a text that is not NaN, scaled
FloatValue(s) ==
    (IF Ch(s, 1) = "-" THEN -1 ELSE 1)
    * MagnitudeOf(Unsigned(s), RunEnd(Unsigned(s), 1, DigitChars))

\* [\d.] and [-\d.]
FloatChars == DigitChars \cup {"."}

SignedFloatChars == FloatChars \cup {"-"}

\* the groups of  (class+)\s+(class+)\s+(class+)  matched at position i, one
\* class per group, or <<>>
RECURSIVE NumberGroupsFrom(_, _, _, _)
\* the same, for a group that starts at i and ends at last, the white space
\* after it ending at space
GroupsAfter(s, i, last, space, classes, groups) ==
    IF last < i THEN <<>>
    ELSE IF Len(groups) + 1 = Len(classes) THEN Append(groups, SubSeq(s, i, last))
    ELSE IF space < last + 1 THEN <<>>
    ELSE NumberGroupsFrom(s, space + 1, classes, Append(groups, SubSeq(s, i, last)))

\* the white space that starts at position i ends at this position
SpaceEnd(s, i) == RunEnd(s, i, SpaceChars)

NumberGroupsFrom(s, i, classes, groups) ==
    GroupsAfter(s, i, RunEnd(s, i, classes[Len(groups) + 1]),
                SpaceEnd(s, RunEnd(s, i, classes[Len(groups) + 1]) + 1), classes, groups)

\* String.prototype.match of  prefix(class+)\s+(class+)\s+(class+) : the
\* groups of the leftmost match at or after position i, or <<>>
OrLater(groups, later) == IF groups # <<>> THEN groups ELSE later

RECURSIVE FunctionMatchFrom(_, _, _, _)
FunctionMatchFrom(s, i, prefix, classes) ==
    IF i > Len(s) THEN <<>>
    ELSE OrLater(IF StartsAt(s, i, prefix)
                 THEN NumberGroupsFrom(s, i + Len(prefix), classes, <<>>)
                 ELSE <<>>,
                 FunctionMatchFrom(s, i + 1, prefix, classes))

\* Math.cos of a whole number of degrees that is a multiple of 30, scaled
CosTable == <<10000, 8660, 5000, 0, -5000, -8660, -10000, -8660, -5000, 0, 5000, 8660>>

CosDeg(h) == CosTable[((h \div 30) % 12) + 1]

SinDeg(h) == CosDeg(h + 270)

\* x * x * x of a scaled number
Cube(x) == Mul(Mul(x, x), x)

\* the three linear channels of oklabToLinearRGB from the cubes l3, m3, s3
LinearFromCubes(l3, m3, s3) ==
    [r |-> Mul(40767, l3) - Mul(33077, m3) + Mul(2310, s3),
     g |-> Mul(26098, m3) - Mul(12684, l3) - Mul(3413, s3),
     b |-> Mul(17076, s3) - Mul(42, l3) - Mul(7034, m3)]

oklabToLinearRGB(L, a, b) ==
    LinearFromCubes(Cube(L + Mul(3963, a) + Mul(2158, b)),
                    Cube(L - Mul(1056, a) - Mul(639, b)),
                    Cube(L - Mul(895, a) - Mul(12915, b)))

\* the largest y in lo..hi with y * y <= x, for scaled x and y
RECURSIVE SqrtIn(_, _, _)
SqrtIn(x, lo, hi) ==
    IF lo >= hi THEN lo
    ELSE IF Mul((lo + hi + 1) \div 2, (lo + hi + 1) \div 2) <= x
    THEN SqrtIn(x, (lo + hi + 1) \div 2, hi)
    ELSE SqrtIn(x, lo, ((lo + hi + 1) \div 2) - 1)

\* the largest y in lo..hi with y * y * y <= x
RECURSIVE CbrtIn(_, _, _)
CbrtIn(x, lo, hi) ==
    IF lo >= hi THEN lo
    ELSE IF Cube((lo + hi + 1) \div 2) <= x
    THEN CbrtIn(x, (lo + hi + 1) \div 2, hi)
    ELSE CbrtIn(x, lo, ((lo + hi + 1) \div 2) - 1)

\* x to the power 1/12, for x up to 16
TwelfthRoot(x) == CbrtIn(SqrtIn(SqrtIn(x, 0, 4 * Scale), 0, 4 * Scale), 0, 2 * Scale)

\* t to the power 5
Fifth(t) == Mul(Mul(Mul(t, t), Mul(t, t)), t)

\* Math.pow(linear, 1 / 2.4): the fifth power of the twelfth root
Pow24(linear) == Fifth(TwelfthRoot(linear))

linearRGBToSRGB(linear) ==
    IF linear * 10 <= 313
    THEN (1292 * linear) \div 100
    ELSE ((1055 * Pow24(linear)) \div 1000) - 550

\* Math.round(Math.max(0, Math.min(255, srgb * 255)))
ToByte(srgb) ==
    (Min({255 * Scale, IF srgb < 0 THEN 0 ELSE srgb * 255}) + (Scale \div 2)) \div Scale

\* the channels of a colour given in OKLab; NaN in any coordinate makes
\* every channel NaN
ChannelsOf(linear) == [channel \in {"r", "g", "b"} |-> ToByte(linearRGBToSRGB(linear[channel]))]

\* L, chroma and hue to a colour
FromLCH(L, C, H) ==
    ChannelsOf(oklabToLinearRGB(L, Mul(C, CosDeg(H \div Scale)), Mul(C, SinDeg(H \div Scale))))

\* the three numbers of a match, scaled
FloatValues(groups) == [k \in 1..3 |-> FloatValue(groups[k])]

\* the result for the groups of a match: null without a match, NaN channels
\* when a group does not parse, else the conversion of the three numbers
ConvertedGroups(groups, converted) ==
    IF groups = <<>> THEN Null
    ELSE IF \E k \in 1..3 : IsNaNText(groups[k]) THEN RGB(NaN, NaN, NaN)
    ELSE converted

OklchGroups(color) == FunctionMatchFrom(color, 1, "oklch(", <<FloatChars, FloatChars, FloatChars>>)

LchChannels(lch) == FromLCH(lch[1], lch[2], lch[3])

parseOKLCH(color) ==
    ConvertedGroups(OklchGroups(color), LchChannels(FloatValues(OklchGroups(color))))

OklabGroups(color) ==
    FunctionMatchFrom(color, 1, "oklab(", <<FloatChars, SignedFloatChars, SignedFloatChars>>)

LabChannels(lab) == ChannelsOf(oklabToLinearRGB(lab[1], lab[2], lab[3]))

parseOKLAB(color) ==
    ConvertedGroups(OklabGroups(color), LabChannels(FloatValues(OklabGroups(color))))

\* the rgb()/rgba() branch
RgbChannels(rgbaMatch) ==
    IF rgbaMatch # <<>>
    THEN RGB(parseInt(rgbaMatch[1], 10), parseInt(rgbaMatch[2], 10), parseInt(rgbaMatch[3], 10))
    ELSE Null

\* a branch that returned, else what the code after it returns
Returned(result, otherwise) == IF result # Null THEN result ELSE otherwise

\* parseColorToRGB up to its browser conversion: the rgb()/rgba(), hex,
\* transparent, oklch and oklab branches in the order of the code, and null
\* for a string that none of them takes
parseColorToRGB(color) ==
    Returned(RgbChannels(RgbaMatch(color)),
    Returned(IF StartsAt(color, 1, "#") THEN ParseHex(color) ELSE Null,
    Returned(IF color = "transparent" \/ color = "rgba(0, 0, 0, 0)" THEN RGB(0, 0, 0) ELSE Null,
    Returned(IF includes(color, "oklch") THEN parseOKLCH(color) ELSE Null,
             IF includes(color, "oklab") THEN parseOKLAB(color) ELSE Null))))

\* the string reaches the browser conversion of parseColorToRGB
ReachesConversion(color) ==
    /\ parseColorToRGB(color) = Null
    /\ includes(color, "hsl") \/ includes(color, "lab")

\* String.prototype.trim
RECURSIVE trim(_)
trim(s) ==
    IF s = "" THEN ""
    ELSE IF Ch(s, 1) \in SpaceChars THEN trim(SubSeq(s, 2, Len(s)))
    ELSE IF Ch(s, Len(s)) \in SpaceChars THEN trim(SubSeq(s, 1, Len(s) - 1))
    ELSE s

\* background.ts looksLikeColor
looksLikeColor(value) ==
    LET lower == trim(toLowerCase(value))
    IN  /\ value # ""
        /\ \/ \E pre \in {"#", "rgb", "hsl", "oklch", "lch", "lab"} : StartsAt(lower, 1, pre)
           \/ lower \in {"transparent", "currentcolor"}

\* `${n}` for a number that is a byte value or NaN
NumberText(n) == IF n = NaN THEN "NaN" ELSE ToString(n)

\* (byte / 255).toFixed(2); the quotient is never half way between two
\* hundredths, since 255 is odd
AlphaToFixed2(byte) ==
    IF byte = NaN THEN "NaN"
    ELSE LET h == (byte * 200 + 255) \div 510
         IN  ToString(h \div 100) \o "." \o ToString((h % 100) \div 10) \o ToString(h % 10)

\* background.ts normalizeToRGB; `computed` is the colour the browser computes
\* for the string, read in the oklch/lch/lab/oklab branch only
normalizeToRGB(color, computed) ==
    IF color = "" \/ ~looksLikeColor(color) THEN Null
    ELSE IF StartsAt(color, 1, "rgb") THEN Str(color)
    ELSE IF \E pre \in {"oklch(", "lch(", "lab(", "oklab("} : StartsAt(color, 1, pre)
    THEN (IF computed # "" /\ StartsAt(computed, 1, "rgb") THEN Str(computed) ELSE Null)
    ELSE IF StartsAt(color, 1, "#")
    THEN LET hex == Replace(color, "#", "")
             r == parseInt(SubSeq(hex, 1, 2), 16)
             g == parseInt(SubSeq(hex, 3, 4), 16)
             b == parseInt(SubSeq(hex, 5, 6), 16)
         IN  IF Len(hex) = 6
             THEN Str("rgb(" \o NumberText(r) \o ", " \o NumberText(g) \o ", "
                      \o NumberText(b) \o ")")
             ELSE IF Len(hex) = 8
             THEN Str("rgba(" \o NumberText(r) \o ", " \o NumberText(g) \o ", "
                      \o NumberText(b) \o ", "
                      \o AlphaToFixed2(parseInt(SubSeq(hex, 7, 8), 16)) \o ")")
             ELSE Null
    ELSE Null

\* colours in the OKLCH notation, with hues that are multiples of 30 degrees
OklchInputs ==
    {"oklch(100% 0 0)", "oklch(1 0 0)", "oklch(0 0 0)", "oklch(0.5 0.1 30)",
     "oklch(0.7 0.1 210)", "oklch(0.9 0.3 120)", "oklch(1 0 0 / 0.5)", "oklch(. 0 0)",
     "oklch(1,0,0)"}

\* colours in the OKLAB notation
OklabInputs ==
    {"oklab(1 0 0)", "oklab(0.5 -0.1 0.1)", "oklab(0.6 0.2 -0.3)", "oklab(0.5 - 0)",
     "oklab(50% 0 0)"}

\* colours that parseColorToRGB leaves to the browser
ConversionInputs ==
    {"hsl(233, 96%, 65%)", "hsla(233, 96%, 65%, 0.5)", "lab(50 0 0)", "lab(50% 0 0)"}

\* colour strings: hex colours of 3, 4, 6 and 8 digits, the forms a
\* computed style takes, and strings the parsers read badly
HexPairs == {"51", "67", "fc", "80", "00", "FF"}

HexNibbles == {"0", "8", "f"}

ColorInputs ==
    {"#" \o a \o b \o c : a \in HexPairs, b \in HexPairs, c \in HexPairs}
    \cup {"#" \o a \o b \o c \o d : a \in HexPairs, b \in HexPairs, c \in HexPairs,
                                     d \in HexPairs}
    \cup {"#" \o a \o b \o c : a \in HexNibbles, b \in HexNibbles, c \in HexNibbles}
    \cup {"#" \o a \o b : a \in HexPairs, b \in HexPairs}
    \cup {"rgb(81, 103, 252)", "rgba(81, 103, 252, 0.5)", "rgba(0, 0, 0, 0)",
          "transparent", "currentcolor", "red", "", "rgb(999, 0, 0)", "#ggg", "#gggggg"}
    \cup OklchInputs \cup OklabInputs \cup ConversionInputs

\* what the browser may compute for a string it is asked to resolve
ComputedColors == {"", "rgb(81, 103, 252)"}

\* what a canvas context may report as its fillStyle after it was assigned
\* the colour: the string itself, or a serialization of a colour
CanvasStyles(color) == {color, "#5167fc", "#000000", "rgba(81, 103, 252, 0.5)"}

\* what getComputedStyle may report as the color of an element that was
\* assigned the colour
DomColors(color) == {color, "rgb(81, 103, 252)", "rgb(0, 0, 0)", "lab(50 0 0)"}

ColorInit ==
    /\ colorIn \in ColorInputs
    /\ parsed = NotCalled
    /\ normalized = NotCalled
    /\ parseCalls = <<>>
    /\ conversion = NotCalled
    /\ ResolveOff
    /\ ThemeOff
    /\ ButtonOff
    /\ CardOff
    /\ RestOff

\* the argument of the running call of parseColorToRGB
CurrentColor == IF parseCalls = <<>> THEN colorIn ELSE parseCalls[Len(parseCalls)]

\* the canvas answer passes the test of the first conversion method
CanvasConverted(computedStyle, color) ==
    computedStyle # color /\ StartsAt(computedStyle, 1, "#")

\* the test that guards the recursive call of the second conversion method
Unconverted_Never(computed, color) == FALSE

Unconverted(computed, color) == computed = color

\* the component detector parses the colour in a branch that returns at once
ParseColor ==
    /\ parsed = NotCalled
    /\ ~ReachesConversion(CurrentColor)
    /\ parsed' = parseColorToRGB(CurrentColor)
    /\ UNCHANGED <<colorIn, normalized, parseCalls, conversion, resolveVars, themeVars,
                   buttonVars, cardVars, restVars>>

\* first conversion method: the canvas reports a hex string, which
\* parseColorToRGB hands to itself
ConvertByCanvas ==
    /\ parsed = NotCalled
    /\ ReachesConversion(CurrentColor)
    /\ \E computedStyle \in CanvasStyles(CurrentColor) :
          /\ CanvasConverted(computedStyle, CurrentColor)
          /\ conversion' = [color |-> CurrentColor, canvas |-> computedStyle,
                            dom |-> "not asked"]
          /\ parseCalls' = Append(parseCalls, computedStyle)
    /\ UNCHANGED <<colorIn, parsed, normalized, resolveVars, themeVars, buttonVars,
                   cardVars, restVars>>

\* second conversion method, after the canvas failed or reported no hex
\* string: null when the element's computed color is the argument itself,
\* a call of parseColorToRGB on the computed color otherwise
ConvertByDom ==
    /\ parsed = NotCalled
    /\ ReachesConversion(CurrentColor)
    /\ \E computedStyle \in CanvasStyles(CurrentColor) \cup {"no context"},
          computed \in DomColors(CurrentColor) :
          /\ ~CanvasConverted(computedStyle, CurrentColor)
          /\ conversion' = [color |-> CurrentColor, canvas |-> computedStyle,
                            dom |-> computed]
          /\ IF Unconverted(computed, CurrentColor)
             THEN parsed' = Null /\ parseCalls' = parseCalls
             ELSE parsed' = parsed /\ parseCalls' = Append(parseCalls, computed)
    /\ UNCHANGED <<colorIn, normalized, resolveVars, themeVars, buttonVars, cardVars, restVars>>

\* the second conversion method throws: the catch clause returns null
ConvertThrows ==
    /\ parsed = NotCalled
    /\ ReachesConversion(CurrentColor)
    /\ parsed' = Null
    /\ conversion' = [color |-> CurrentColor, canvas |-> "no context", dom |-> "threw"]
    /\ UNCHANGED <<colorIn, normalized, parseCalls, resolveVars, themeVars, buttonVars,
                   cardVars, restVars>>

\* background.ts normalizes the colour
NormalizeColor ==
    /\ rpc = "off" /\ themeCs = ""
    /\ normalized = NotCalled
    /\ \E computed \in ComputedColors : normalized' = normalizeToRGB(colorIn, computed)
    /\ UNCHANGED <<colorIn, parsed, parseCalls, conversion, resolveVars, themeVars,
                   buttonVars, cardVars, restVars>>

ColorNext ==
    ParseColor \/ ConvertByCanvas \/ ConvertByDom \/ ConvertThrows \/ NormalizeColor

ColorSpec == ColorInit /\ [][ColorNext]_vars

-----------------------------------------------------------------------------
(* Component detector: areButtonsSimilar and extractButtons *)

Abs(n) == IF n < 0 THEN 0 - n ELSE n

\* a || b on strings
OrElse(a, b) == IF a = "" THEN b ELSE a

\* a || b on numbers
NumberOr(a, b) == IF a = NaN \/ a = 0 THEN b ELSE a

\* parseFloat on the whole-pixel lengths of the model: the leading digits
parseFloat(s) == parseInt(s, 10)

\* inferSizeVariant: small, large or medium from the padding and the font
\* size, "" for null; avgPadding is compared through paddingTop + paddingLeft
inferSizeVariant(styles) ==
    LET paddingSum == NumberOr(parseFloat(styles.paddingTop), 0)
                      + NumberOr(parseFloat(styles.paddingLeft), 0)
        fontSize == NumberOr(parseFloat(styles.fontSize), 14)
    IN  IF paddingSum <= 12 \/ fontSize <= 12 THEN "small"
        ELSE IF paddingSum >= 32 \/ fontSize >= 18 THEN "large"
        ELSE IF paddingSum >= 24 /\ paddingSum < 32 THEN "medium"
        ELSE ""

\* sizeVariant ? label-sizeVariant : label
Sized(label, sizeVariant) == IF sizeVariant = "" THEN label ELSE label \o "-" \o sizeVariant

Max3(a, b, c) == CHOOSE x \in {a, b, c} : \A y \in {a, b, c} : y <= x

\* inferVariant, priority 2 for a transparent background: outline, link or
\* ghost
TransparentVariant(button, sizeVariant, textRgb) ==
    IF NumberOr(parseFloat(button.borderWidth), 0) > 0 /\ button.border # "none"
    THEN Sized("outline", sizeVariant)
    ELSE IF /\ textRgb # Null
            /\ \/ (textRgb.b > 150 /\ textRgb.b > textRgb.r + 30 /\ textRgb.b > textRgb.g + 30)
               \/ textRgb.b > textRgb.r + 50
               \/ textRgb.r > 200
               \/ includes(button.textDecoration, "underline")
    THEN "link"
    ELSE "ghost"

\* inferVariant, priority 4: hints in the text, else default
TextVariant(text, sizeVariant) ==
    IF includes(text, "delete") \/ includes(text, "remove") \/ includes(text, "cancel")
    THEN "danger"
    ELSE IF includes(text, "confirm") \/ includes(text, "submit") \/ includes(text, "save")
    THEN "primary"
    ELSE Sized("default", sizeVariant)

\* inferVariant, priority 3: the hue, saturation and brightness of the
\* background
BackgroundVariant(rgb, text, sizeVariant) ==
    LET saturation == Max3(rgb.r, rgb.g, rgb.b) - Min({rgb.r, rgb.g, rgb.b})
    IN  IF rgb.r > rgb.g + 30 /\ rgb.r > rgb.b + 30 /\ rgb.r > 180
        THEN Sized("danger", sizeVariant)
        ELSE IF rgb.g > rgb.r + 30 /\ rgb.g > rgb.b + 30 /\ rgb.g > 180
        THEN Sized("success", sizeVariant)
        ELSE IF rgb.r > 180 /\ rgb.g > 180 /\ rgb.b < 100
        THEN Sized("warning", sizeVariant)
        ELSE IF rgb.b > rgb.r + 30 /\ rgb.b > rgb.g + 30 /\ rgb.b > 180
        THEN Sized("info", sizeVariant)
        ELSE IF saturation > 50 /\ rgb.r + rgb.g + rgb.b > 300
        THEN Sized("primary", sizeVariant)
        ELSE IF saturation < 30 \/ rgb.r + rgb.g + rgb.b < 300
        THEN Sized("secondary", sizeVariant)
        ELSE TextVariant(text, sizeVariant)

\* inferVariant after the explicit variant classes
VisualVariant(button, sizeVariant) ==
    IF button.backgroundColor = "rgba(0, 0, 0, 0)" \/ button.backgroundColor = "transparent"
    THEN TransparentVariant(button, sizeVariant, parseColorToRGB(button.color))
    ELSE IF parseColorToRGB(button.backgroundColor) # Null
    THEN BackgroundVariant(parseColorToRGB(button.backgroundColor),
                           toLowerCase(button.textContent), sizeVariant)
    ELSE TextVariant(toLowerCase(button.textContent), sizeVariant)

\* inferVariant: the explicit variant classes first (priority 1), then the
\* computed style and the text
inferVariant(button) ==
    LET classes == toLowerCase(button.className)
    IN  IF includes(classes, "primary") THEN "primary"
        ELSE IF includes(classes, "secondary") THEN "secondary"
        ELSE IF includes(classes, "tertiary") THEN "tertiary"
        ELSE IF includes(classes, "ghost") \/ includes(classes, "outline") THEN "outline"
        ELSE IF includes(classes, "danger") \/ includes(classes, "destructive")
                \/ includes(classes, "error") THEN "danger"
        ELSE IF includes(classes, "success") THEN "success"
        ELSE IF includes(classes, "warning") \/ includes(classes, "caution") THEN "warning"
        ELSE IF includes(classes, "info") THEN "info"
        ELSE IF includes(classes, "link") \/ includes(classes, "text-button") THEN "link"
        ELSE VisualVariant(button, inferSizeVariant(button))

\* the ButtonComponent built for an element, not yet counted
NewButton_Uncounted(btn) ==
    [classes |-> OrElse(btn.className, ""),
     styles |-> [background |-> btn.backgroundColor,
                 color |-> btn.color,
                 padding |-> btn.padding,
                 borderRadius |-> btn.borderRadius,
                 fontSize |-> btn.textFontSize],
     variant |-> inferVariant(btn),
     count |-> 0]

\* the ButtonComponent built for an element (the fields the clustering reads)
NewButton(btn) ==
    [classes |-> OrElse(btn.className, ""),
     styles |-> [background |-> btn.backgroundColor,
                 color |-> btn.color,
                 padding |-> btn.padding,
                 borderRadius |-> btn.borderRadius,
                 fontSize |-> btn.textFontSize],
     variant |-> inferVariant(btn),
     count |-> 1]

\* utils/styleHelpers calculateColorDistance: the Euclidean distance of the
\* r, g, b channels, each normalised to [0, 1].  The value here is the
\* square of that distance in units of 1/255, which is an integer.
SquaredDistance(p, q) ==
    (p.r - q.r) * (p.r - q.r) + (p.g - q.g) * (p.g - q.g) + (p.b - q.b) * (p.b - q.b)

calculateColorDistance(c1, c2) == SquaredDistance(parseColorToRGB(c1), parseColorToRGB(c2))

\* distance > hundredths / 100, on the squared distance in units of 1/255
Exceeds(distance, hundredths) == distance * 10000 > hundredths * hundredths * 65025

\* utils/styleHelpers parsePaddingValue: the padding as a single number of
\* pixels; the paddings of the model are one whole-pixel length
parsePaddingValue(padding) == NumberOr(parseFloat(padding), 0)

\* 1. the variant must match
VariantMatches_Always(btn1, btn2) == TRUE

VariantMatches(btn1, btn2) == btn1.variant = btn2.variant

isGhostOrOutline(btn1) ==
    LET variantType == toLowerCase(btn1.variant)
    IN  \/ includes(variantType, "ghost")
        \/ includes(variantType, "outline")
        \/ includes(variantType, "link")

isSecondarySized(btn1) == includes(toLowerCase(btn1.variant), "secondary")

\* 2. background colours, with no limit on the distance
BackgroundSimilar_Always(btn1, btn2) == TRUE

\* 2. background colours
BackgroundSimilar(btn1, btn2) ==
    LET bg1 == OrElse(btn1.styles.background, "transparent")
        bg2 == OrElse(btn2.styles.background, "transparent")
        isTransparent1 == bg1 = "rgba(0, 0, 0, 0)" \/ bg1 = "transparent"
        isTransparent2 == bg2 = "rgba(0, 0, 0, 0)" \/ bg2 = "transparent"
        isWhite1 == bg1 = "rgb(255, 255, 255)" \/ bg1 = "#ffffff"
        isWhite2 == bg2 = "rgb(255, 255, 255)" \/ bg2 = "#ffffff"
        bothMinimal == (isTransparent1 \/ isWhite1) /\ (isTransparent2 \/ isWhite2)
    IN  IF isGhostOrOutline(btn1)
        THEN bothMinimal \/ ~Exceeds(calculateColorDistance(bg1, bg2), 15)
        ELSE ~Exceeds(calculateColorDistance(bg1, bg2), 12)

\* 3. text colours
TextSimilar(btn1, btn2) ==
    LET textDistance == calculateColorDistance(OrElse(btn1.styles.color, "rgb(0,0,0)"),
                                               OrElse(btn2.styles.color, "rgb(0,0,0)"))
    IN  IF isGhostOrOutline(btn1)
        THEN ~Exceeds(textDistance, 20)
        ELSE ~Exceeds(textDistance, 12)

\* 4. border radius
RadiusSimilar(btn1, btn2) ==
    LET radius1 == NumberOr(parseFloat(OrElse(btn1.styles.borderRadius, "0")), 0)
        radius2 == NumberOr(parseFloat(OrElse(btn2.styles.borderRadius, "0")), 0)
        radiusDiff == Abs(radius1 - radius2)
    IN  IF isGhostOrOutline(btn1) \/ isSecondarySized(btn1)
        THEN ~(radiusDiff > 10)
        ELSE ~(radiusDiff > 6)

PaddingDiff(btn1, btn2) ==
    Abs(parsePaddingValue(OrElse(btn1.styles.padding, "0px"))
        - parsePaddingValue(OrElse(btn2.styles.padding, "0px")))

FontDiff_Signed(btn1, btn2) ==
    NumberOr(parseFloat(OrElse(btn1.styles.fontSize, "14")), 14)
    - NumberOr(parseFloat(OrElse(btn2.styles.fontSize, "14")), 14)

FontDiff(btn1, btn2) ==
    Abs(NumberOr(parseFloat(OrElse(btn1.styles.fontSize, "14")), 14)
        - NumberOr(parseFloat(OrElse(btn2.styles.fontSize, "14")), 14))

\* 5. padding and 6. font size, without the combined rule
SizeSimilar_NoCombinedRule(btn1, btn2) ==
    /\ ~(PaddingDiff(btn1, btn2) > 12)
    /\ ~(FontDiff(btn1, btn2) > 6)

\* 5. padding and 6. font size
SizeSimilar(btn1, btn2) ==
    /\ ~(PaddingDiff(btn1, btn2) > 12)
    /\ ~(FontDiff(btn1, btn2) > 6)
    /\ ~(FontDiff(btn1, btn2) > 4 /\ PaddingDiff(btn1, btn2) > 6)

areButtonsSimilar(btn1, btn2) ==
    /\ VariantMatches(btn1, btn2)
    /\ BackgroundSimilar(btn1, btn2)
    /\ TextSimilar(btn1, btn2)
    /\ RadiusSimilar(btn1, btn2)
    /\ SizeSimilar(btn1, btn2)

\* position of the first existing button similar to the new one, 0 if none
FirstSimilar_Last(bs, newButton) ==
    LET I == {i \in 1..Len(bs) : areButtonsSimilar(newButton, bs[i])}
    IN  IF I = {} THEN 0 ELSE CHOOSE i \in I : \A k \in I : k <= i

FirstSimilar(bs, newButton) ==
    LET I == {i \in 1..Len(bs) : areButtonsSimilar(newButton, bs[i])}
    IN  IF I = {} THEN 0 ELSE Min(I)

\* existingButton.count++, with the new button's fields taken over
Merged_TakesNewFields(existingButton, newButton) ==
    [newButton EXCEPT !.count = existingButton.count + 1]

\* existingButton.count++
Merged(existingButton, newButton) == [existingButton EXCEPT !.count = @ + 1]

\* the body of the forEach callback, with the new button put first
AddButton_Unshift(bs, newButton) ==
    LET found == FirstSimilar(bs, newButton)
    IN  IF found # 0 THEN [bs EXCEPT ![found] = Merged(@, newButton)]
        ELSE <<newButton>> \o bs

\* the body of the forEach callback: count the new button into the first
\* similar one, or push it
AddButton(bs, newButton) ==
    LET found == FirstSimilar(bs, newButton)
    IN  IF found # 0 THEN [bs EXCEPT ![found] = Merged(@, newButton)]
        ELSE Append(bs, newButton)

\* the same step on the record of which elements each button counts
AddMember(ms, found, position) ==
    IF found # 0 THEN [ms EXCEPT ![found] = @ \cup {position}]
    ELSE Append(ms, {position})

\* order in which sort((a, b) => a.count - b.count) leaves the first n entries
RECURSIVE SortOrder_Ascending(_, _)
SortOrder_Ascending(list, n) ==
    IF n = 0 THEN <<>>
    ELSE LET prev == SortOrder_Ascending(list, n - 1)
             pos == Cardinality({j \in 1..(n - 1) : list[prev[j]].count <= list[n].count})
         IN  SubSeq(prev, 1, pos) \o <<n>> \o SubSeq(prev, pos + 1, n - 1)

\* order in which sort((a, b) => b.count - a.count) leaves the first n
\* entries: by count, highest first, equal counts in their earlier order
RECURSIVE SortOrder(_, _)
SortOrder(list, n) ==
    IF n = 0 THEN <<>>
    ELSE LET prev == SortOrder(list, n - 1)
             pos == Cardinality({j \in 1..(n - 1) : list[prev[j]].count >= list[n].count})
         IN  SubSeq(prev, 1, pos) \o <<n>> \o SubSeq(prev, pos + 1, n - 1)

Permuted(list, order) == [i \in 1..Len(list) |-> list[order[i]]]

\* Array.prototype.slice(0, n)
Slice(list, n) == SubSeq(list, 1, IF n < Len(list) THEN n ELSE Len(list))

ButtonCap == 5

MaxElements == 3

MaxRankElements == 7

Element(className, backgroundColor, color, padding, borderRadius, textFontSize) ==
    [className |-> className, backgroundColor |-> backgroundColor, color |-> color,
     padding |-> padding, borderRadius |-> borderRadius, textFontSize |-> textFontSize,
     paddingTop |-> padding, paddingLeft |-> padding, fontSize |-> textFontSize,
     borderWidth |-> "0px", border |-> "0px none rgb(0, 0, 0)",
     textDecoration |-> "none solid rgb(0, 0, 0)", textContent |-> "Button"]

\* buttons of a page that differ in style: a filled primary button with
\* square, slightly rounded and rounded corners, a secondary button styled as
\* the second of them, a large primary button, and a transparent and a white
\* outline button
StyledButtons ==
    {Element("btn btn-primary", "rgb(0, 0, 0)", "rgb(255, 255, 255)", "8px", "0px", "14px"),
     Element("btn btn-primary", "rgb(0, 0, 0)", "rgb(255, 255, 255)", "8px", "5px", "14px"),
     Element("btn btn-primary", "rgb(0, 0, 0)", "rgb(255, 255, 255)", "8px", "10px", "14px"),
     Element("btn btn-secondary", "rgb(0, 0, 0)", "rgb(255, 255, 255)", "8px", "5px", "14px"),
     Element("btn btn-primary", "rgb(0, 0, 0)", "rgb(255, 255, 255)", "8px", "0px", "22px"),
     Element("btn-ghost", "rgba(0, 0, 0, 0)", "rgb(0, 0, 0)", "8px", "0px", "14px"),
     Element("Btn Btn-Outline", "rgb(255, 255, 255)", "rgb(20, 20, 20)", "16px", "8px", "")}

VariantClasses ==
    <<"btn-primary", "btn-secondary", "btn-tertiary", "btn-outline", "btn-danger",
      "btn-success", "btn-link">>

\* buttons of a page that differ in their variant class only
LabelledButton(k) ==
    Element(VariantClasses[k], "rgb(0, 0, 0)", "rgb(255, 255, 255)", "8px", "4px", "14px")

ButtonInit ==
    /\ elements = <<>>
    /\ buttons = <<>>
    /\ members = <<>>
    /\ bResult = NotCalled
    /\ bpc = "run"
    /\ ResolveOff
    /\ ThemeOff
    /\ ColorOff
    /\ CardOff
    /\ RestOff

\* one call of the forEach callback, for the element btn
VisitButton(btn) ==
    /\ bpc = "run"
    /\ elements' = Append(elements, btn)
    /\ \E newButton \in {NewButton(btn)} :
          /\ buttons' = AddButton(buttons, newButton)
          /\ members' = AddMember(members, FirstSimilar(buttons, newButton),
                                  Len(elements) + 1)
    /\ UNCHANGED <<bResult, bpc, resolveVars, themeVars, colorVars, cardVars, restVars>>

VisitStyledButton ==
    /\ Len(elements) < MaxElements
    /\ \E btn \in StyledButtons : VisitButton(btn)

\* the next button carries a variant class seen before or the next new one
VisitLabelledButton ==
    /\ Len(elements) < MaxRankElements
    /\ \E k \in 1..Len(VariantClasses) :
          /\ k <= Len(buttons) + 1
          /\ VisitButton(LabelledButton(k))

\* all elements visited: sort in place and return the first five
ButtonFinish ==
    /\ bpc = "run"
    /\ bpc' = "done"
    /\ buttons' = Permuted(buttons, SortOrder(buttons, Len(buttons)))
    /\ members' = Permuted(members, SortOrder(buttons, Len(buttons)))
    /\ bResult' = Slice(buttons', ButtonCap)
    /\ UNCHANGED <<elements, resolveVars, themeVars, colorVars, cardVars, restVars>>

ButtonNext == VisitStyledButton \/ ButtonFinish

ButtonSpec == ButtonInit /\ [][ButtonNext]_vars

\* buttons without a variant class beside buttons with one: a purple
\* background in three shades and two paddings, and outline buttons on a
\* transparent, a white, a light grey and a near-white background
SizedButtons ==
    {Element("btn btn-primary", "rgb(200, 100, 200)", "rgb(255, 255, 255)", "4px", "4px", "14px"),
     Element("btn", "rgb(200, 100, 200)", "rgb(255, 255, 255)", "4px", "4px", "14px"),
     Element("btn", "rgb(200, 100, 200)", "rgb(255, 255, 255)", "8px", "4px", "14px"),
     Element("btn", "rgb(200, 100, 230)", "rgb(255, 255, 255)", "8px", "4px", "14px"),
     Element("btn", "rgb(200, 135, 200)", "rgb(255, 255, 255)", "8px", "4px", "14px"),
     Element("btn btn-outline", "rgba(0, 0, 0, 0)", "rgb(0, 0, 0)", "8px", "4px", "14px"),
     Element("btn btn-outline", "rgb(255, 255, 255)", "rgb(0, 0, 0)", "8px", "4px", "14px"),
     Element("btn btn-outline", "rgb(230, 230, 230)", "rgb(0, 0, 0)", "8px", "4px", "14px"),
     Element("btn btn-outline", "rgb(250, 250, 250)", "rgb(0, 0, 0)", "8px", "4px", "14px"),
     Element("btn", "rgba(0, 0, 0, 0)", "rgb(0, 0, 0)", "8px", "4px", "14px")}

VisitSizedButton ==
    /\ Len(elements) < MaxElements
    /\ \E btn \in SizedButtons : VisitButton(btn)

VariantNext == VisitSizedButton \/ ButtonFinish

VariantSpec == ButtonInit /\ [][VariantNext]_vars

\* primary buttons of one colour and radius in three font sizes and three
\* paddings
GradedButtons ==
    {Element("btn btn-primary", "rgb(0, 0, 0)", "rgb(255, 255, 255)", padding, "4px", textFontSize) :
        padding \in {"8px", "12px", "16px"}, textFontSize \in {"14px", "19px", "22px"}}

VisitGradedButton ==
    /\ Len(elements) < MaxElements
    /\ \E btn \in GradedButtons : VisitButton(btn)

GradedNext == VisitGradedButton \/ ButtonFinish

GradedSpec == ButtonInit /\ [][GradedNext]_vars

-----------------------------------------------------------------------------
(* Component detector: extractCards *)

CardCap == 10

MaxCards == 12

\* Math.round(n / 16) * 16
RoundTo16(n) == IF n = NaN THEN NaN ELSE ((2 * n + 16) \div 32) * 16

\* utils/componentHelpers createStyleSignature
createStyleSignature(element) ==
    LET paddingLeft == RoundTo16(parseInt(element.paddingLeft, 10))
        paddingTop == RoundTo16(parseInt(element.paddingTop, 10))
    IN  element.backgroundColor \o "-" \o element.color \o "-" \o element.borderRadius
        \o "-" \o NumberText(paddingLeft) \o "px-" \o NumberText(paddingTop) \o "px-"
        \o element.fontSize \o "-" \o element.fontWeight

inferCardVariant(card) ==
    LET className == toLowerCase(card.className)
    IN  IF includes(className, "elevated") \/ includes(className, "raised") THEN "elevated"
        ELSE IF includes(className, "flat") \/ includes(className, "outlined") THEN "flat"
        ELSE IF includes(className, "interactive") \/ includes(className, "clickable")
        THEN "interactive"
        ELSE IF card.hasMedia THEN "media"
        ELSE "default"

\* the CardVariant built for an element (the fields the pass reads or sorts)
NewCard(card) ==
    [classes |-> OrElse(card.className, ""),
     styles |-> [background |-> card.backgroundColor,
                 border |-> card.border,
                 borderRadius |-> card.borderRadius,
                 padding |-> card.padding,
                 boxShadow |-> card.boxShadow],
     variant |-> inferCardVariant(card),
     count |-> 1]

\* the filter of extractCards: a border, a shadow or a background
LooksLikeCard(card) ==
    LET hasBorder == card.border # "none" /\ card.borderWidth # "0px"
        hasShadow == card.boxShadow # "none"
        hasBackground == card.backgroundColor # "rgba(0, 0, 0, 0)"
                         /\ card.backgroundColor # "transparent"
    IN  ~(~hasBorder /\ ~hasShadow /\ ~hasBackground)

\* the k-th card style of a page: the corner radius tells the styles apart,
\* and a card has a background, a shadow or a border in turn
CardElement(k, paddingPx) ==
    [className |-> IF k % 2 = 0 THEN "card card-elevated" ELSE "card",
     hasMedia |-> k % 4 = 1,
     border |-> IF k % 3 = 0 THEN "1px solid rgb(0, 0, 0)" ELSE "0px none rgb(0, 0, 0)",
     borderWidth |-> IF k % 3 = 0 THEN "1px" ELSE "0px",
     boxShadow |-> IF k % 3 = 2 THEN "rgba(0, 0, 0, 0.1) 0px 1px 2px 0px" ELSE "none",
     backgroundColor |-> IF k % 3 = 1 THEN "rgb(255, 255, 255)" ELSE "rgba(0, 0, 0, 0)",
     color |-> "rgb(0, 0, 0)",
     borderRadius |-> ToString(k) \o "px",
     padding |-> paddingPx,
     paddingLeft |-> paddingPx,
     paddingTop |-> paddingPx,
     fontSize |-> "14px",
     fontWeight |-> "400"]

\* an element matched by the selector that has no border, shadow or background
PlainElement ==
    [CardElement(1, "16px") EXCEPT !.className = "list-item",
                                   !.backgroundColor = "rgba(0, 0, 0, 0)"]

\* the elements the page may hold next: a style seen before, the first style
\* again with a slightly smaller padding, the next new style, or a plain
\* element
PageCards ==
    {CardElement(k, "16px") : k \in 1..(Len(cards) + 1)}
    \cup {CardElement(1, "14px") : k \in 1..(IF Len(cards) > 0 THEN 1 ELSE 0)}
    \cup {PlainElement}

CardInit ==
    /\ cards = <<>>
    /\ seen = [sig \in {} |-> 0]
    /\ cVisited = 0
    /\ cResult = NotCalled
    /\ cpc = "run"
    /\ ResolveOff
    /\ ThemeOff
    /\ ColorOff
    /\ ButtonOff
    /\ RestOff

\* one call of the forEach callback of extractCards
VisitCard ==
    /\ cpc = "run"
    /\ cVisited < MaxCards
    /\ cVisited' = cVisited + 1
    /\ \E card \in PageCards :
          LET signature == createStyleSignature(card)
          IN  IF ~LooksLikeCard(card)
              THEN UNCHANGED <<cards, seen>>
              ELSE IF signature \in DOMAIN seen
              THEN /\ cards' = [cards EXCEPT ![seen[signature]].count = @ + 1]
                   /\ UNCHANGED seen
              ELSE /\ cards' = Append(cards, NewCard(card))
                   /\ seen' = [sig \in DOMAIN seen \cup {signature} |->
                                  IF sig \in DOMAIN seen THEN seen[sig] ELSE Len(cards) + 1]
    /\ UNCHANGED <<cResult, cpc, resolveVars, themeVars, colorVars, buttonVars, restVars>>

\* all elements visited: sort in place and return the first ten
CardFinish ==
    /\ cpc = "run"
    /\ cpc' = "done"
    /\ LET order == SortOrder(cards, Len(cards))
       IN  /\ cards' = Permuted(cards, order)
           /\ seen' = [sig \in DOMAIN seen |->
                          CHOOSE i \in 1..Len(cards) : order[i] = seen[sig]]
    /\ cResult' = Slice(cards', CardCap)
    /\ cVisited' = cVisited
    /\ UNCHANGED <<resolveVars, themeVars, colorVars, buttonVars, restVars>>

\* one clustering pass, of buttons that differ in label or of cards, up to
\* its sorted and truncated result
RankInit == ButtonInit \/ CardInit

RankNext == VisitLabelledButton \/ ButtonFinish \/ VisitCard \/ CardFinish

RankSpec == RankInit /\ [][RankNext]_vars

-----------------------------------------------------------------------------
(* contentScript.js, background.ts: the scanStyles listener and the popup's
   scan button *)

\* scan requests the popup sends
MaxRequests == 3

\* the listener's run of a request is on the call stack
OnStack(pos) == pos \in {"variables", "styles", "respond"}

RunsOnStack == {id \in 1..Len(runPos) : OnStack(runPos[id])}

\* the listener calls extractStyles and sendResponse without awaiting
\* anything, so the page dispatches the next message only when the
\* listener has returned
Dispatchable_Always == TRUE

Dispatchable == RunsOnStack = {}

ScanInit ==
    /\ ScanOff
    /\ ResolveOff
    /\ ThemeOff
    /\ ColorOff
    /\ ButtonOff
    /\ CardOff
    /\ ShadowOff
    /\ TableOff
    /\ LateOff

\* the popup's click handler sends a scanStyles message to the tab
ClickScan ==
    /\ Len(runPos) < MaxRequests
    /\ inbox' = Append(inbox, Len(runPos) + 1)
    /\ msgAction' = Append(msgAction, "scanStyles")
    /\ runPos' = Append(runPos, "queued")
    /\ UNCHANGED <<scanLog, responses, resolveVars, themeVars, colorVars, buttonVars,
                   cardVars, shadowVars, tableVars,
                   lateVars>>

\* a message with another action reaches the page
SendOther ==
    /\ Len(runPos) < MaxRequests
    /\ inbox' = Append(inbox, Len(runPos) + 1)
    /\ msgAction' = Append(msgAction, "logAnalytics")
    /\ runPos' = Append(runPos, "queued")
    /\ UNCHANGED <<scanLog, responses, resolveVars, themeVars, colorVars, buttonVars,
                   cardVars, shadowVars, tableVars,
                   lateVars>>

\* the page dispatches the oldest message, whose action is not scanStyles,
\* to the listener: it skips the if statement and returns true
DispatchOther ==
    /\ inbox # <<>>
    /\ Dispatchable
    /\ msgAction[Head(inbox)] # "scanStyles"
    /\ runPos' = [runPos EXCEPT ![Head(inbox)] = "done"]
    /\ inbox' = Tail(inbox)
    /\ UNCHANGED <<msgAction, scanLog, responses, resolveVars, themeVars, colorVars,
                   buttonVars, cardVars, shadowVars, tableVars,
                   lateVars>>

\* the page dispatches the oldest message to the listener, which calls
\* extractStyles
DispatchScan ==
    /\ inbox # <<>>
    /\ Dispatchable
    /\ msgAction[Head(inbox)] = "scanStyles"
    /\ runPos' = [runPos EXCEPT ![Head(inbox)] = "variables"]
    /\ scanLog' = Append(scanLog, <<"start", Head(inbox)>>)
    /\ inbox' = Tail(inbox)
    /\ UNCHANGED <<msgAction, responses, resolveVars, themeVars, colorVars, buttonVars,
                   cardVars, shadowVars, tableVars,
                   lateVars>>

\* extractStyles builds the table of custom properties
ExtractVariables ==
    /\ \E id \in 1..Len(runPos) :
          /\ runPos[id] = "variables"
          /\ runPos' = [runPos EXCEPT ![id] = "styles"]
          /\ scanLog' = Append(scanLog, <<"table", id>>)
    /\ UNCHANGED <<inbox, msgAction, responses, resolveVars, themeVars, colorVars,
                   buttonVars, cardVars, shadowVars, tableVars,
                   lateVars>>

\* extractStyles collects the colours, fonts and other styles and returns
ExtractRest ==
    /\ \E id \in 1..Len(runPos) :
          /\ runPos[id] = "styles"
          /\ runPos' = [runPos EXCEPT ![id] = "respond"]
          /\ scanLog' = Append(scanLog, <<"styles", id>>)
    /\ UNCHANGED <<inbox, msgAction, responses, resolveVars, themeVars, colorVars,
                   buttonVars, cardVars, shadowVars, tableVars,
                   lateVars>>

\* the listener sends the extracted data and returns
RespondSuccess ==
    /\ \E id \in 1..Len(runPos) :
          /\ runPos[id] = "respond"
          /\ runPos' = [runPos EXCEPT ![id] = "done"]
          /\ responses' = Append(responses, [request |-> id, success |-> TRUE])
          /\ scanLog' = Append(scanLog, <<"end", id>>)
    /\ UNCHANGED <<inbox, msgAction, resolveVars, themeVars, colorVars, buttonVars,
                   cardVars, shadowVars, tableVars,
                   lateVars>>

\* extractStyles throws: the listener catches and returns without sending
RespondError_Swallowed ==
    /\ \E id \in 1..Len(runPos) :
          /\ runPos[id] \in {"variables", "styles"}
          /\ runPos' = [runPos EXCEPT ![id] = "done"]
          /\ responses' = responses
          /\ scanLog' = Append(scanLog, <<"end", id>>)
    /\ UNCHANGED <<inbox, msgAction, resolveVars, themeVars, colorVars, buttonVars,
                   cardVars, shadowVars, tableVars,
                   lateVars>>

\* extractStyles throws: the listener catches, sends the error and returns
RespondError ==
    /\ \E id \in 1..Len(runPos) :
          /\ runPos[id] \in {"variables", "styles"}
          /\ runPos' = [runPos EXCEPT ![id] = "done"]
          /\ responses' = Append(responses, [request |-> id, success |-> FALSE])
          /\ scanLog' = Append(scanLog, <<"end", id>>)
    /\ UNCHANGED <<inbox, msgAction, resolveVars, themeVars, colorVars, buttonVars,
                   cardVars, shadowVars, tableVars,
                   lateVars>>

ScanNext ==
    \/ ClickScan
    \/ SendOther
    \/ DispatchOther
    \/ DispatchScan
    \/ ExtractVariables
    \/ ExtractRest
    \/ RespondSuccess
    \/ RespondError

ScanSpec == ScanInit /\ [][ScanNext]_vars

-----------------------------------------------------------------------------
(* enhancedShadowExtractor.ts: extractShadowsWithUsage; parseShadow and
   groupShadowsByElevation of styleExtractor *)

\* elements the selector list finds
MaxShadowElements == 2

\* the words of s from position i on, separated by single spaces
RECURSIVE WordsFrom(_, _, _)
WordsFrom(s, i, word) ==
    IF i > Len(s) THEN (IF word = "" THEN <<>> ELSE <<word>>)
    ELSE IF Ch(s, i) = " "
    THEN (IF word = "" THEN <<>> ELSE <<word>>) \o WordsFrom(s, i + 1, "")
    ELSE WordsFrom(s, i + 1, word \o Ch(s, i))

\* the word begins like a number
IsLength(word) == Unsigned(word) # "" /\ Ch(Unsigned(word), 1) \in DigitChars

\* a length in whole pixels, with its sign
SignedPx(word) ==
    IF Ch(word, 1) = "-" THEN 0 - parseFloat(SubSeq(word, 2, Len(word)))
    ELSE parseFloat(word)

\* the lengths that follow the colour of a computed box-shadow value
ShadowLengths(shadowStr) ==
    IF IndexOf(shadowStr, ")") = 0 THEN <<>>
    ELSE WordsFrom(shadowStr, IndexOf(shadowStr, ")") + 1, "")

\* a shadow from its lengths: offset-x, offset-y, blur and spread
ShadowOf(shadowStr, lengths) ==
    IF Len(lengths) # 4 \/ \E k \in 1..4 : ~IsLength(lengths[k])
    THEN Null
    ELSE [kind |-> "shadow", raw |-> shadowStr,
          color |-> SubSeq(shadowStr, 1, IndexOf(shadowStr, ")")),
          offsetX |-> SignedPx(lengths[1]), offsetY |-> SignedPx(lengths[2]),
          blur |-> SignedPx(lengths[3]), spread |-> SignedPx(lengths[4])]

\* parseShadow: the components of a box-shadow value, or null
parseShadow(shadowStr) == ShadowOf(shadowStr, ShadowLengths(shadowStr))

\* the tier of a shadow: the number of tier bounds its blur does not stay below
TierOf_ByBlur(shadow, bounds) ==
    Cardinality({k \in 1..Len(bounds) : bounds[k] <= shadow.blur})

\* the tier of a shadow: the number of tier bounds its blur+spread does not
\* stay below
TierOf(shadow, bounds) ==
    Cardinality({k \in 1..Len(bounds) : bounds[k] <= shadow.blur + shadow.spread})

\* the sum of the counts of a list of counted shadows
RECURSIVE UsageOf(_)
UsageOf(counted) ==
    IF counted = <<>> THEN 0 ELSE Head(counted).count + UsageOf(Tail(counted))

\* the counted shadows of one tier, in their order
RECURSIVE InTier(_, _, _)
InTier(counted, level, bounds) ==
    IF counted = <<>> THEN <<>>
    ELSE (IF TierOf(Head(counted).parsed, bounds) = level THEN <<Head(counted)>> ELSE <<>>)
         \o InTier(Tail(counted), level, bounds)

\* the groups of the tiers from level on, leaving out the empty tiers
RECURSIVE GroupsFrom(_, _, _)
GroupsFrom(counted, level, bounds) ==
    IF level > Len(bounds) THEN <<>>
    ELSE (IF InTier(counted, level, bounds) = <<>> THEN <<>>
          ELSE <<[level |-> level,
                  shadows |-> [k \in 1..Len(InTier(counted, level, bounds)) |->
                                 InTier(counted, level, bounds)[k].parsed],
                  usageCount |-> UsageOf(InTier(counted, level, bounds))]>>)
         \o GroupsFrom(counted, level + 1, bounds)

\* groupShadowsByElevation: one group per tier, from subtle to heavy
groupShadowsByElevation(parsedShadows, bounds) == GroupsFrom(parsedShadows, 0, bounds)

\* the parsed shadows of the map's entries, with the number of uses of each
RECURSIVE ParsedShadows(_)
ParsedShadows(entries) ==
    IF entries = <<>> THEN <<>>
    ELSE (IF parseShadow(Head(entries).shadow) = Null THEN <<>>
          ELSE <<[parsed |-> parseShadow(Head(entries).shadow),
                  count |-> Head(entries).count]>>)
         \o ParsedShadows(Tail(entries))

\* shadowToElements after one more use of boxShadow: no change for an empty
\* value or none
RECURSIVE CountedIn(_, _)
CountedIn(entries, boxShadow) ==
    IF boxShadow = "" \/ boxShadow = "none" THEN entries
    ELSE IF entries = <<>> THEN <<[shadow |-> boxShadow, count |-> 1]>>
    ELSE IF Head(entries).shadow = boxShadow
    THEN <<[shadow |-> boxShadow, count |-> Head(entries).count + 1]>> \o Tail(entries)
    ELSE <<Head(entries)>> \o CountedIn(Tail(entries), boxShadow)

\* computed box-shadow values of elements
BoxShadows ==
    {"none", "", "rgba(0, 0, 0, 0.05) 0px 1px 2px 0px",
     "rgba(0, 0, 0, 0.1) 0px 4px 6px -1px", "rgba(0, 0, 0, 0.1) 0px 10px 15px -3px",
     "rgba(0, 0, 0, 0.25) 0px 25px 50px -12px", "rgba(0, 0, 0, 0.3) 0px 2px 20px -16px",
     "rgb(81, 103, 252) 0px 0px 0px 3px", "inset 1px"}

\* computed box-shadow values of ::before and ::after
PseudoShadows == {"none", "rgba(0, 0, 0, 0.1) 0px 4px 6px -1px"}

\* magnitudes at which a tier may begin
TierBounds == {<<5>>, <<4, 12>>, <<3, 10, 30>>, <<1, 6, 13, 40>>}

ShadowInit ==
    /\ shadowToElements = <<>>
    /\ shadowsVisited = 0
    /\ tierBounds \in TierBounds
    /\ shadowGroups = NotCalled
    /\ spc = "collect"
    /\ ResolveOff
    /\ ThemeOff
    /\ ColorOff
    /\ ButtonOff
    /\ CardOff
    /\ ScanOff
    /\ TableOff
    /\ LateOff

\* the loop over the elements: the box shadows of the element, of its
\* ::before and of its ::after are counted
VisitShadowElement ==
    /\ spc = "collect"
    /\ shadowsVisited < MaxShadowElements
    /\ \E boxShadow \in BoxShadows, beforeShadow \in PseudoShadows,
          afterShadow \in PseudoShadows :
          shadowToElements' =
              CountedIn(CountedIn(CountedIn(shadowToElements, boxShadow), beforeShadow),
                        afterShadow)
    /\ shadowsVisited' = shadowsVisited + 1
    /\ UNCHANGED <<tierBounds, shadowGroups, spc, resolveVars, themeVars, colorVars,
                   buttonVars, cardVars, scanVars, tableVars,
                   lateVars>>

\* after the loop: the unique shadows are parsed and grouped by elevation
GroupShadows ==
    /\ spc = "collect"
    /\ shadowGroups' = groupShadowsByElevation(ParsedShadows(shadowToElements), tierBounds)
    /\ spc' = "done"
    /\ UNCHANGED <<shadowToElements, shadowsVisited, tierBounds, resolveVars, themeVars,
                   colorVars, buttonVars, cardVars, scanVars, tableVars,
                   lateVars>>

ShadowNext == VisitShadowElement \/ GroupShadows

ShadowSpec == ShadowInit /\ [][ShadowNext]_vars

-----------------------------------------------------------------------------
(* contentScript.js, background.ts: parseCSSRules, called by
   extractCSSCustomProperties on the rule list of each stylesheet *)

\* stylesheets of the page whose rules can be read
MaxSheets == 3

\* cssVars[property][theme] = value, keeping a value the pair already has
StoreValue_KeepFirst(table, property, theme, value) ==
    IF property \notin DOMAIN table THEN table @@ (property :> (theme :> value))
    ELSE [table EXCEPT ![property] = @ @@ (theme :> value)]

\* if (!cssVars[property]) cssVars[property] = {}; cssVars[property][theme] = value
StoreValue(table, property, theme, value) ==
    IF property \notin DOMAIN table THEN table @@ (property :> (theme :> value))
    ELSE [table EXCEPT ![property] = (theme :> value) @@ @]

\* the loop over the declarations of one rule, from the j-th on
RECURSIVE StoreDeclarations(_, _, _, _)
StoreDeclarations(style, j, theme, table) ==
    IF j > Len(style) THEN table
    ELSE StoreDeclarations(style, j + 1, theme,
             IF StartsAt(style[j].property, 1, "--")
             THEN StoreValue(table, style[j].property, theme, trim(style[j].value))
             ELSE table)

\* contentScript.js parseCSSRules, from the i-th rule on
RECURSIVE parseCSSRules(_, _, _)
parseCSSRules(rules, i, table) ==
    IF i > Len(rules) THEN table
    ELSE IF "cssRules" \in DOMAIN rules[i]
    THEN parseCSSRules(rules, i + 1, parseCSSRules(rules[i].cssRules, 1, table))
    ELSE IF "style" \notin DOMAIN rules[i] THEN parseCSSRules(rules, i + 1, table)
    ELSE parseCSSRules(rules, i + 1,
             StoreDeclarations(rules[i].style, 1,
                               getThemeFromSelector(rules[i].selectorText), table))

\* background.ts: the selectors parseCSSRules extracts from
isThemeSelector(sel) ==
    \/ sel = ":root"
    \/ sel = "html"
    \/ sel = "body"
    \/ includes(sel, ".dark")
    \/ includes(sel, "[data-theme")
    \/ includes(sel, ":host")

\* background.ts parseCSSRules, from the i-th rule on
RECURSIVE parseCSSRules_background(_, _, _)
parseCSSRules_background(rules, i, table) ==
    IF i > Len(rules) THEN table
    ELSE IF "cssRules" \in DOMAIN rules[i]
    THEN parseCSSRules_background(rules, i + 1,
             parseCSSRules_background(rules[i].cssRules, 1, table))
    ELSE IF "style" \notin DOMAIN rules[i] THEN parseCSSRules_background(rules, i + 1, table)
    ELSE IF rules[i].selectorText = "" \/ ~isThemeSelector(rules[i].selectorText)
    THEN parseCSSRules_background(rules, i + 1, table)
    ELSE parseCSSRules_background(rules, i + 1,
             StoreDeclarations(rules[i].style, 1,
                               getThemeFromSelector_background(rules[i].selectorText),
                               table))

\* rules of a stylesheet
Declaration(property, value) == [property |-> property, value |-> value]

StyleRule(selectorText, style) == [selectorText |-> selectorText, style |-> style]

\* @media, @supports: a rule with a rule list
GroupingRule(rules) == [cssRules |-> rules]

\* @import: a rule with neither a rule list nor declarations
ImportRule == [href |-> "theme.css"]

\* @font-face: declarations and no selector
FontFaceRule == [selectorText |-> "", style |-> <<Declaration("font-family", "Inter")>>]

\* a style rule of a browser that gives every style rule a list of nested
\* rules
NestingRule(selectorText, style) ==
    [selectorText |-> selectorText, style |-> style, cssRules |-> <<>>]

RuleLists ==
    {<<StyleRule(":root", <<Declaration("--a", "1")>>)>>,
     <<StyleRule(":root", <<Declaration("--a", " 3 "), Declaration("--b", "1"),
                            Declaration("color", "red")>>)>>,
     <<StyleRule(".dark", <<Declaration("--a", "2")>>)>>,
     <<StyleRule(".card", <<Declaration("--a", "4")>>)>>,
     <<StyleRule("[data-theme=\"dim\"]", <<Declaration("--a", "6")>>)>>,
     <<StyleRule("HTML.Dark", <<Declaration("--b", "7")>>)>>,
     <<ImportRule, FontFaceRule, StyleRule(":root", <<Declaration("--b", "8")>>)>>,
     <<NestingRule(":root", <<Declaration("--a", "9")>>)>>,
     <<StyleRule(".dark", <<Declaration("--b", "5")>>),
       GroupingRule(<<StyleRule(":root", <<Declaration("--a", "")>>),
                      StyleRule(".dark", <<Declaration("--b", " 5 ")>>),
                      StyleRule(".dark", <<Declaration("--b", "0")>>)>>),
       StyleRule(":root", <<Declaration("--b", "1")>>)>>}

TableInit ==
    /\ sheets = <<>>
    /\ sheetsScanned = 0
    /\ tableCs = <<>>
    /\ tableBg = <<>>
    /\ ResolveOff
    /\ ThemeOff
    /\ ColorOff
    /\ ButtonOff
    /\ CardOff
    /\ ScanOff
    /\ ShadowOff
    /\ LateOff

\* one pass of the loop over document.styleSheets: the rules of the sheet
\* are parsed
ParseSheet ==
    /\ sheetsScanned < MaxSheets
    /\ \E rules \in RuleLists :
          /\ sheets' = Append(sheets, rules)
          /\ tableCs' = parseCSSRules(rules, 1, tableCs)
          /\ tableBg' = parseCSSRules_background(rules, 1, tableBg)
    /\ sheetsScanned' = sheetsScanned + 1
    /\ UNCHANGED <<resolveVars, themeVars, colorVars, buttonVars, cardVars, scanVars,
                   shadowVars, lateVars>>

\* one pass of the loop for a stylesheet of an extension or one whose rules
\* cannot be read: it is skipped
SkipSheet ==
    /\ sheetsScanned < MaxSheets
    /\ sheetsScanned' = sheetsScanned + 1
    /\ UNCHANGED <<sheets, tableCs, tableBg, resolveVars, themeVars, colorVars, buttonVars,
                   cardVars, scanVars, shadowVars,
                   lateVars>>

TableNext == ParseSheet \/ SkipSheet

TableSpec == TableInit /\ [][TableNext]_vars

-----------------------------------------------------------------------------
\* The popup (background.ts): scan, copy and download buttons, the loading,
\* output and status blocks, and the timeouts of showStatus

MaxClicks == 4

otherVarsOfPopup == <<resolveVars, themeVars, colorVars, buttonVars, cardVars, scanVars,
                      shadowVars, tableVars, cacheVars, treeVars, oracle>>

\* showLoading: the loading block is shown, everything else is hidden
showLoading ==
    /\ loadingDisplay' = "block"
    /\ outputDisplay' = "none"
    /\ statusDisplay' = "none"
    /\ buttonsDisplay' = "none"

\* displayMarkdown: the markdown is kept and shown with the two buttons
displayMarkdown(markdown) ==
    /\ currentMarkdown' = markdown
    /\ outputDisplay' = "block"
    /\ buttonsDisplay' = "inline-block"

\* showError: the status block shows the message as an error; no timeout
showError ==
    /\ statusClass' = "error"
    /\ statusDisplay' = "block"
    /\ timers' = timers
    /\ clicksAtError' = clicks

\* showStatus: the status block shows the message as a success, and a
\* timeout that hides the block is scheduled; nothing ever cancels it
showStatus ==
    /\ statusClass' = "success"
    /\ statusDisplay' = "block"
    /\ timers' = timers + 1

\* click on the scan button: showLoading, then the handler awaits the tab
ScanClick ==
    /\ clicks < MaxClicks
    /\ clicks' = clicks + 1
    /\ showLoading
    /\ scansInFlight' = scansInFlight + 1
    /\ UNCHANGED <<statusClass, currentMarkdown, copiesInFlight, timers, clicksAtError,
                   otherVarsOfPopup>>

\* the callback of sendMessage with a successful response: hideLoading,
\* displayMarkdown
ScanSucceeds ==
    /\ scansInFlight > 0
    /\ scansInFlight' = scansInFlight - 1
    /\ loadingDisplay' = "none"
    /\ displayMarkdown("# Design System")
    /\ UNCHANGED <<statusDisplay, statusClass, copiesInFlight, timers, clicks,
                   clicksAtError,
                   otherVarsOfPopup>>

\* the callback of sendMessage with lastError set or a failed response, or
\* the catch block of the handler: hideLoading, showError
ScanFails ==
    /\ scansInFlight > 0
    /\ scansInFlight' = scansInFlight - 1
    /\ loadingDisplay' = "none"
    /\ showError
    /\ UNCHANGED <<outputDisplay, buttonsDisplay, currentMarkdown, copiesInFlight, clicks,
                   otherVarsOfPopup>>

\* click on the copy button, which is visible: the clipboard write starts
CopyClick ==
    /\ clicks < MaxClicks
    /\ buttonsDisplay = "inline-block"
    /\ clicks' = clicks + 1
    /\ copiesInFlight' = copiesInFlight + 1
    /\ UNCHANGED <<loadingDisplay, outputDisplay, statusDisplay, statusClass, buttonsDisplay,
                   currentMarkdown, scansInFlight, timers, clicksAtError,
                   otherVarsOfPopup>>

\* the clipboard write is fulfilled: showStatus
CopyWritten ==
    /\ copiesInFlight > 0
    /\ copiesInFlight' = copiesInFlight - 1
    /\ showStatus
    /\ UNCHANGED <<loadingDisplay, outputDisplay, buttonsDisplay, currentMarkdown,
                   scansInFlight, clicks, clicksAtError,
                   otherVarsOfPopup>>

\* the clipboard write is rejected: the handler has no rejection branch
CopyRejected ==
    /\ copiesInFlight > 0
    /\ copiesInFlight' = copiesInFlight - 1
    /\ UNCHANGED <<loadingDisplay, outputDisplay, statusDisplay, statusClass, buttonsDisplay,
                   currentMarkdown, scansInFlight, timers, clicks, clicksAtError,
                   otherVarsOfPopup>>

\* click on the download button, which is visible: the file is offered and
\* showStatus is called
DownloadClick ==
    /\ clicks < MaxClicks
    /\ buttonsDisplay = "inline-block"
    /\ clicks' = clicks + 1
    /\ showStatus
    /\ UNCHANGED <<loadingDisplay, outputDisplay, buttonsDisplay, currentMarkdown,
                   scansInFlight, copiesInFlight, clicksAtError,
                   otherVarsOfPopup>>

\* a timeout of showStatus fires: the status block is hidden
StatusTimeout ==
    /\ timers > 0
    /\ timers' = timers - 1
    /\ statusDisplay' = "none"
    /\ UNCHANGED <<loadingDisplay, outputDisplay, statusClass, buttonsDisplay, currentMarkdown,
                   scansInFlight, copiesInFlight, clicks, clicksAtError,
                   otherVarsOfPopup>>

PopupInit ==
    /\ PopupOff
    /\ ResolveOff
    /\ ThemeOff
    /\ ColorOff
    /\ ButtonOff
    /\ CardOff
    /\ ScanOff
    /\ ShadowOff
    /\ TableOff
    /\ CacheOff
    /\ TreeOff
    /\ OracleOff

PopupNext ==
    \/ ScanClick
    \/ ScanSucceeds
    \/ ScanFails
    \/ CopyClick
    \/ CopyWritten
    \/ CopyRejected
    \/ DownloadClick
    \/ StatusTimeout

PopupSpec == PopupInit /\ [][PopupNext]_vars

-----------------------------------------------------------------------------
\* The caches of elements and computed styles (part_001)

MaxCacheOps == 5

CacheElements == {"html", "body", "div"}

otherVarsOfCache == <<resolveVars, themeVars, colorVars, buttonVars, cardVars, scanVars,
                      shadowVars, tableVars, popupVars, treeVars, oracle>>

\* the page adds or removes an element
DomChange ==
    /\ \E el \in CacheElements : dom' = IF el \in dom THEN dom \ {el} ELSE dom \cup {el}
    /\ UNCHANGED <<cachedElements, computedStyleCache, cacheOps, opsAtClear, cacheReturn,
                   otherVarsOfCache>>

\* getCachedElements: querySelectorAll('*') only when nothing is cached
getCachedElements ==
    /\ cacheOps < MaxCacheOps
    /\ cacheOps' = cacheOps + 1
    /\ cachedElements' = IF cachedElements = Null
                         THEN [scan |-> cacheOps + 1, elements |-> dom]
                         ELSE cachedElements
    /\ cacheReturn' = cachedElements'
    /\ UNCHANGED <<dom, computedStyleCache, opsAtClear, otherVarsOfCache>>

\* getCachedComputedStyle(element): window.getComputedStyle only when the
\* map has no entry for the element
getCachedComputedStyle ==
    /\ cacheOps < MaxCacheOps
    /\ cacheOps' = cacheOps + 1
    /\ \E element \in dom :
        /\ computedStyleCache' =
               IF element \in DOMAIN computedStyleCache
               THEN computedStyleCache
               ELSE [el \in DOMAIN computedStyleCache \cup {element} |->
                        IF el = element THEN cacheOps + 1 ELSE computedStyleCache[el]]
        /\ cacheReturn' = [element |-> element, styles |-> computedStyleCache'[element]]
    /\ UNCHANGED <<dom, cachedElements, opsAtClear, otherVarsOfCache>>

\* clearCaches: cachedElements = null, and nothing else
clearCaches ==
    /\ cacheOps < MaxCacheOps
    /\ cacheOps' = cacheOps + 1
    /\ opsAtClear' = cacheOps + 1
    /\ cachedElements' = Null
    /\ cacheReturn' = NotCalled
    /\ UNCHANGED <<dom, computedStyleCache, otherVarsOfCache>>

CacheInit ==
    /\ dom \in SUBSET CacheElements
    /\ cachedElements = Null
    /\ computedStyleCache = <<>>
    /\ cacheOps = 0
    /\ opsAtClear = 0
    /\ cacheReturn = NotCalled
    /\ PopupOff
    /\ ResolveOff
    /\ ThemeOff
    /\ ColorOff
    /\ ButtonOff
    /\ CardOff
    /\ ScanOff
    /\ ShadowOff
    /\ TableOff
    /\ TreeOff
    /\ OracleOff

CacheNext == DomChange \/ getCachedElements \/ getCachedComputedStyle \/ clearCaches

CacheSpec == CacheInit /\ [][CacheNext]_vars

-----------------------------------------------------------------------------
\* The DOM tree extraction (part_004)

MAX_TREE_NODES == 500

DEPTH_INITIAL == 8

DEPTH_MEDIUM == 6

DEPTH_SMALL == 5

CHILDREN_INITIAL == 12

CHILDREN_MEDIUM == 10

CHILDREN_SMALL == 8

VIEWPORT_FILTER_DEPTH == 5

MaxTreeDepth == 7

\* numbers of child elements an element of a page has
TreeWidths == {2, 8, 12}

\* A page: every element at depth d - 1 has widths[d] child elements, the
\* first `skipped` of them elements that extractNode rejects (a script, an
\* invisible or a prunable element); inViewport tells whether the elements
\* are inside the viewport
Pages ==
    {[widths |-> w, skipped |-> k, inViewport |-> v] :
        w \in UNION {[1..n -> TreeWidths] : n \in 1..MaxTreeDepth},
        k \in {0, 1},
        v \in BOOLEAN}

otherVarsOfTree == <<resolveVars, themeVars, colorVars, buttonVars, cardVars, scanVars,
                     shadowVars, tableVars, popupVars, cacheVars, oracle>>

\* the children extractNode visits: the first maxChildren of el.children
Sliced(width, maxChildren) == IF width > maxChildren THEN maxChildren ELSE width

\* the number of nodes of extractNode(el, depth, maxDepth, maxChildren) for
\* an element el at the depth, as countNodes counts them; 0 for null
RECURSIVE extractNode(_, _, _, _)
extractNode(pg, depth, maxDepth, maxChildren) ==
    IF depth > maxDepth
    THEN 0
    ELSE IF depth > VIEWPORT_FILTER_DEPTH /\ ~pg.inViewport
    THEN 0
    ELSE IF depth + 1 > Len(pg.widths)
    THEN 1
    ELSE 1 + (Sliced(pg.widths[depth + 1], maxChildren) - pg.skipped)
                 * extractNode(pg, depth + 1, maxDepth, maxChildren)

\* one attempt of extractDOMTree
Attempt(maxDepth, maxChildren) ==
    [nodeCount |-> extractNode(page, 0, maxDepth, maxChildren), depthUsed |-> maxDepth]

\* the attempt after `before`, made when that one has too many nodes
Retry(before, maxDepth, maxChildren) ==
    IF before.nodeCount > MAX_TREE_NODES THEN Attempt(maxDepth, maxChildren) ELSE before

\* extractDOMTree: up to three attempts, the last one returned as it is
extractDOMTree ==
    /\ treeResult = NotCalled
    /\ treeResult' = Retry(Retry(Attempt(DEPTH_INITIAL, CHILDREN_INITIAL),
                                 DEPTH_MEDIUM, CHILDREN_MEDIUM),
                           DEPTH_SMALL, CHILDREN_SMALL)
    /\ UNCHANGED <<page, otherVarsOfTree>>

TreeInit ==
    /\ page \in Pages
    /\ treeResult = NotCalled
    /\ PopupOff
    /\ CacheOff
    /\ ResolveOff
    /\ ThemeOff
    /\ ColorOff
    /\ ButtonOff
    /\ CardOff
    /\ ScanOff
    /\ ShadowOff
    /\ TableOff
    /\ OracleOff

TreeNext == extractDOMTree

TreeSpec == TreeInit /\ [][TreeNext]_vars

-----------------------------------------------------------------------------
\* parseColorToRGB (part_005) with a browser whose answers are a function
\* of the string it is asked to convert

MaxOracleCalls == 4

\* strings that parseColorToRGB leaves to the browser
OracleStrings == {"hsl(0, 0%, 50%)", "hsla(0, 0%, 50%, 1)", "lab(50 0 0)"}

\* an answer of the browser: the fillStyle the canvas reports, or no 2d
\* context, and the color getComputedStyle reports
OracleAnswers ==
    {[canvas |-> "#808080", dom |-> "rgb(128, 128, 128)"]}
    \cup {[canvas |-> "no context", dom |-> computed] :
             computed \in OracleStrings \cup {"rgb(128, 128, 128)"}}

\* the conversion branch of parseColorToRGB on the browser's answer: a call
\* of itself on the canvas's hex string, null for an unchanged computed
\* color, a call of itself on the computed color otherwise
ConvertByOracle ==
    /\ parsed = NotCalled
    /\ ReachesConversion(CurrentColor)
    /\ Len(parseCalls) < MaxOracleCalls
    /\ \E answer \in {oracle[CurrentColor]} :
          /\ conversion' = [color |-> CurrentColor, canvas |-> answer.canvas,
                            dom |-> answer.dom]
          /\ IF CanvasConverted(answer.canvas, CurrentColor)
             THEN parsed' = parsed /\ parseCalls' = Append(parseCalls, answer.canvas)
             ELSE IF Unconverted(answer.dom, CurrentColor)
             THEN parsed' = Null /\ parseCalls' = parseCalls
             ELSE parsed' = parsed /\ parseCalls' = Append(parseCalls, answer.dom)
    /\ UNCHANGED <<colorIn, normalized, oracle, resolveVars, themeVars, buttonVars, cardVars,
                   scanVars, shadowVars, tableVars, popupVars, cacheVars, treeVars>>

OracleInit ==
    /\ colorIn \in OracleStrings
    /\ oracle \in [OracleStrings -> OracleAnswers]
    /\ parsed = NotCalled
    /\ normalized = NotCalled
    /\ parseCalls = <<>>
    /\ conversion = NotCalled
    /\ ResolveOff
    /\ ThemeOff
    /\ ButtonOff
    /\ CardOff
    /\ ScanOff
    /\ ShadowOff
    /\ TableOff
    /\ PopupOff
    /\ CacheOff
    /\ TreeOff

OracleNext == ParseColor \/ ConvertByOracle

OracleSpec == OracleInit /\ [][OracleNext]_vars

-----------------------------------------------------------------------------
(* Properties of the resolver *)

\* the call being executed: its theme and the token the loop is looking at
CallTheme == rEntry[2]

CurrentMatch == VarRegexExec(resolved)

AtToken == rpc = "loop" /\ LoopGuard(resolved, iterations)

\* name is declared for theme in the table (with whatever value)
Declared(name, theme) == name \in DOMAIN cssVars /\ theme \in DOMAIN cssVars[name]

\* --a and --b reference each other in the theme of the call
MutualReference ==
    /\ Declared("--a", CallTheme) /\ cssVars["--a"][CallTheme] = "var(--b)"
    /\ Declared("--b", CallTheme) /\ cssVars["--b"][CallTheme] = "var(--a)"

\* C1: resolving a value always returns: every step of the loop either
\* returns the string or is one more substitution, counted by `iterations`,
\* and the count never exceeds maxIterations (10); so a call performs at most
\* 10 substitutions and then returns, also when two variables reference
\* each other.
C1_ResolutionReturnsWithinBound ==
    [][rpc = "loop" =>
          \/ rpc' = "done" /\ resolved' = resolved
          \/ /\ rpc' = "loop"
             /\ iterations' = iterations + 1
             /\ iterations' <= maxIterations]_vars

\* a call on --a: var(--b), --b: var(--a) has returned after exactly 10
\* substitutions with a token still in the string
C1_Witness ==
    /\ rpc = "done"
    /\ MutualReference
    /\ rEntry[1] = "--a"
    /\ iterations = maxIterations
    /\ resolved = "var(--b)"

\* the replacement the claim C2 describes for the token m of string s
ClaimedValue(s, m, theme) ==
    IF Declared(m.name, theme) THEN cssVars[m.name][theme]
    ELSE IF Declared(m.name, "light") THEN cssVars[m.name]["light"]
    ELSE IF m.hasFallback THEN m.fallback
    ELSE MatchText(s, m)

\* C2: every token the loop substitutes is replaced by the first of: the
\* value declared for its name in the theme of the call, the value declared
\* for its name in light, the fallback text of the token.
C2_FirstDeclaredValueWins ==
    AtToken =>
        Substitute(cssVars, resolved, CallTheme)
            = SubSeq(resolved, 1, CurrentMatch.index - 1)
              \o ClaimedValue(resolved, CurrentMatch, CallTheme)
              \o SubSeq(resolved, CurrentMatch.last + 1, Len(resolved))

\* C3: when the token the loop has reached names a variable declared neither
\* in the theme of the call nor in light and carries no fallback, the
\* substitution leaves the string as it is and the call returns exactly that
\* string: the token stays as literal text and nothing else changes.
C3_UnresolvableTokenStays ==
    (/\ AtToken
     /\ ~CurrentMatch.hasFallback
     /\ ~Declared(CurrentMatch.name, CallTheme)
     /\ ~Declared(CurrentMatch.name, "light"))
    => /\ Substitute(cssVars, resolved, CallTheme) = resolved
       /\ ResolveFrom(cssVars, resolved, iterations, CallTheme) = resolved
       /\ includes(ResolveFrom(cssVars, resolved, iterations, CallTheme),
                   MatchText(resolved, CurrentMatch))

\* the loop has gone round on var(--m), declared nowhere, and is at it again
C3_Witness ==
    /\ AtToken
    /\ iterations > 0
    /\ CurrentMatch.name = "--m"
    /\ ~CurrentMatch.hasFallback
    /\ ~Declared("--m", CallTheme) /\ ~Declared("--m", "light")
    /\ resolved = "var(--m) var(--b)"

\* substitutions tried when following the references of a value to their end
MaxFollowed == 40

\* the references of the value s end: substituting token after token, with no
\* bound of 10, leaves a string without tokens (not so for a cycle, nor for
\* a token that nothing resolves)
RECURSIVE ReferencesEnd(_, _, _, _)
ReferencesEnd(table, s, theme, left) ==
    IF ~VarRegexExec(s).ok THEN TRUE
    ELSE IF left = 0 THEN FALSE
    ELSE ReferencesEnd(table, Substitute(table, s, theme), theme, left - 1)

\* the value the call was made on
CallValue == cssVars[rEntry[1]][rEntry[2]]

\* C23: a value whose references end (an acyclic chain; the tables of the
\* model allow a nesting depth of 3 at most) is returned with no var() token
\* left, however many tokens it holds
C23_AcyclicChainFullyResolved ==
    (rpc = "done" /\ ReferencesEnd(cssVars, CallValue, CallTheme, MaxFollowed))
    => ~VarRegexExec(resolved).ok

\* the tokens of the string s
TokensOf(s) == {VarMatchAt(s, i) : i \in {j \in 1..Len(s) : VarMatchAt(s, j).ok}}

\* nothing resolves the token m: no declaration in the theme of the call or
\* in light, no fallback
Unresolvable(m) ==
    /\ ~m.hasFallback
    /\ ThemeValue(cssVars, m.name, CallTheme) = ""
    /\ ThemeValue(cssVars, m.name, "light") = ""

\* C24: a token that nothing resolves does not keep the tokens after it from
\* being substituted: the returned string holds no token of a declared
\* variable after such a token
C24_LaterTokensStillSubstituted ==
    rpc = "done" =>
        \A m \in TokensOf(resolved), later \in TokensOf(resolved) :
            ~ (/\ Unresolvable(m)
               /\ m.index < later.index
               /\ ThemeValue(cssVars, later.name, CallTheme) # "")

-----------------------------------------------------------------------------
(* Properties of theme classification *)

\* the results computed so far, by any of the three copies
ThemeResults == {themeCs, themeBg, themeDom} \ {""}

\* C8: a declaration under `:root` is classified light and one under
\* `.dark button` is classified dark, by every copy of the classifier.
C8_RootLightDarkButtonDark ==
    /\ selector = ":root" => ThemeResults \subseteq {"light"}
    /\ selector = ".dark button" => ThemeResults \subseteq {"dark"}

\* `.dark button` has been classified dark by all three copies
C8_Witness ==
    /\ selector = ".dark button"
    /\ themeCs = "dark" /\ themeBg = "dark" /\ themeDom = "dark"

\* a dark-mode marker occurs in the lower-cased selector text: the .dark
\* class, the dark attribute variants, .theme-dark
HasDarkMarker(lower) ==
    \/ includes(lower, ".dark")
    \/ includes(lower, "[data-theme=\"dark\"]")
    \/ includes(lower, "[data-theme='dark']")
    \/ includes(lower, "[theme=\"dark\"]")
    \/ includes(lower, ".theme-dark")

HasDataThemeAttr(s, name) ==
    \E open \in QuoteChars \cup {""}, close \in QuoteChars \cup {""} :
        includes(s, "[data-theme=" \o open \o name \o close \o "]")

-----------------------------------------------------------------------------
(* Properties of colour parsing *)

IsHex8(color) ==
    /\ Len(color) = 9
    /\ Ch(color, 1) = "#"
    /\ \A i \in 2..9 : toLowerCase(Ch(color, i)) \in CharsOf(HexDigits)

\* value of the k-th byte (two hex digits) after the #
HexByte(color, k) ==
    16 * DigitValue(Ch(color, 2 * k), 16) + DigitValue(Ch(color, 2 * k + 1), 16)

\* C10: an 8-digit hex colour is not rejected: both parsers return its
\* first three bytes as r, g, b, and the one that reports alpha reports the
\* last byte divided by 255 (two decimals), so #5167fc80 is 81, 103, 252
\* with alpha 0.50.
C10_EightDigitHexAlpha ==
    IsHex8(colorIn) =>
        /\ parsed # NotCalled =>
              parsed = RGB(HexByte(colorIn, 1), HexByte(colorIn, 2), HexByte(colorIn, 3))
        /\ normalized # NotCalled =>
              normalized = Str("rgba(" \o ToString(HexByte(colorIn, 1)) \o ", "
                               \o ToString(HexByte(colorIn, 2)) \o ", "
                               \o ToString(HexByte(colorIn, 3)) \o ", "
                               \o AlphaToFixed2(HexByte(colorIn, 4)) \o ")")
        /\ colorIn = "#5167fc80" /\ normalized # NotCalled =>
              normalized = Str("rgba(81, 103, 252, 0.50)")

-----------------------------------------------------------------------------
(* Properties of the clustering passes *)

Range(list) == {list[i] : i \in 1..Len(list)}

\* the sample built for the element at a position of the page
Sample(i) == NewButton(elements[i])

\* C4: two samples with different variant labels are never counted into the
\* same cluster: every sample a cluster counts has exactly the label of the
\* cluster's representative, whatever the styles.
C4_DifferentLabelsNeverMerge ==
    \A k \in 1..Len(members) :
        /\ \A i \in members[k] : inferVariant(elements[i]) = buttons[k].variant
        /\ \A i, j \in members[k] : inferVariant(elements[i]) = inferVariant(elements[j])

\* two elements with equal styles and different labels were clustered apart
C4_Witness ==
    /\ bpc = "done"
    /\ \E i, j \in 1..Len(elements) :
          /\ Sample(i).styles = Sample(j).styles
          /\ inferVariant(elements[i]) # inferVariant(elements[j])
          /\ \E k \in 1..Len(members) : i \in members[k] /\ j \notin members[k]

\* the clusters (sets of positions of `elements`) a pass makes when it visits
\* the elements in the given order of positions
RECURSIVE ClusterIn(_, _, _, _)
ClusterIn(order, k, bs, ms) ==
    IF k > Len(order) THEN ms
    ELSE ClusterIn(order, k + 1, AddButton(bs, Sample(order[k])),
                   AddMember(ms, FirstSimilar(bs, Sample(order[k])), order[k]))

\* the page with its first two elements exchanged: [B, A, C] for [A, B, C]
SwappedOrder ==
    [i \in 1..Len(elements) |-> IF i = 1 THEN 2 ELSE IF i = 2 THEN 1 ELSE i]

SameClustersWhenSwapped ==
    LET swapped == ClusterIn(SwappedOrder, 1, <<>>, <<>>)
    IN  /\ Len(swapped) = Len(members)
        /\ Range(swapped) = Range(members)

\* C5 as stated: for samples [A, B, C] in which B introduces a new cluster,
\* the order [B, A, C] yields the same number of clusters and the same
\* assignment of samples to clusters.
C5_ReorderKeepsMembership ==
    (/\ bpc = "done"
     /\ Len(elements) = 3
     /\ ~areButtonsSimilar(Sample(2), Sample(1)))
        => SameClustersWhenSwapped

SimilarityTransitive ==
    LET n == Len(elements)
        S == {p \in (1..n) \X (1..n) :
                 p[1] # p[2] /\ areButtonsSimilar(Sample(p[1]), Sample(p[2]))}
    IN  \A i, j, k \in 1..n :
            i # k /\ <<i, j>> \in S /\ <<j, k>> \in S => <<i, k>> \in S

\* C5: when the similarity test is transitive on the samples of the page,
\* exchanging the first two samples yields the same number of clusters and
\* the same assignment of samples to clusters.
C5_ReorderKeepsMembershipIfTransitive ==
    (/\ bpc = "done"
     /\ Len(elements) >= 2
     /\ SimilarityTransitive)
        => SameClustersWhenSwapped

\* three samples, the first two similar but not equal, so that the exchange
\* changes the representative of their cluster
C5_Witness ==
    /\ bpc = "done"
    /\ Len(elements) = 3
    /\ SimilarityTransitive
    /\ elements[1] # elements[2]
    /\ areButtonsSimilar(Sample(1), Sample(2))
    /\ Len(buttons) = 2

\* result is the list `all` ordered by count, highest first, and cut to cap
Ranked(all, result, cap) ==
    /\ Len(result) = (IF Len(all) < cap THEN Len(all) ELSE cap)
    /\ \A i, j \in 1..Len(result) : i < j => result[i].count >= result[j].count
    /\ Range(result) \subseteq Range(all)
    /\ Cardinality(Range(result)) = Len(result)
    /\ \A kept \in Range(result) : \A dropped \in Range(all) \ Range(result) :
          kept.count >= dropped.count

\* C6: the list a clustering pass returns is ordered by count, highest
\* first, holds at most 5 buttons or 10 cards, and holds the clusters with
\* the highest counts: no kept cluster has a lower count than a dropped one.
C6_ResultRankedAndCapped ==
    [][/\ (bpc = "run" /\ bpc' = "done") => Ranked(buttons, bResult', 5)
       /\ (cpc = "run" /\ cpc' = "done") => Ranked(cards, cResult', 10)]_vars

\* six button clusters, the last made one counted twice, so it is returned
\* first and a cluster counted once is dropped
C6_Witness ==
    /\ bpc = "done"
    /\ Len(buttons) = 6
    /\ Len(bResult) = 5
    /\ bResult[1].variant = "success"
    /\ bResult[1].count = 2
    /\ bResult[5].count = 1

\* C7: a sample similar to no existing cluster makes exactly one new cluster,
\* placed after the existing ones, with the sample's styles and label and
\* count 1; the existing clusters are left as they were.
C7_NoMatchAppendsSingleton ==
    [][(/\ bpc = "run"
        /\ Len(elements') = Len(elements) + 1
        /\ \A i \in 1..Len(buttons) :
              ~areButtonsSimilar(NewButton(elements'[Len(elements')]), buttons[i]))
          => LET e == elements'[Len(elements')]
                 new == buttons'[Len(buttons')]
             IN  /\ Len(buttons') = Len(buttons) + 1
                 /\ SubSeq(buttons', 1, Len(buttons)) = buttons
                 /\ new.count = 1
                 /\ new.variant = inferVariant(e)
                 /\ new.classes = e.className
                 /\ new.styles.background = e.backgroundColor
                 /\ new.styles.color = e.color
                 /\ new.styles.padding = e.padding
                 /\ new.styles.borderRadius = e.borderRadius
                 /\ new.styles.fontSize = e.textFontSize]_vars

\* the second element visited matched no cluster and made the second one
C7_Witness ==
    /\ bpc = "run"
    /\ Len(elements) = 2
    /\ Len(buttons) = 2
    /\ buttons[1].count = 1
    /\ buttons[2].count = 1
    /\ buttons[2].styles.background = elements[2].backgroundColor
    /\ ~areButtonsSimilar(Sample(2), Sample(1))

-----------------------------------------------------------------------------
\* Properties of the colour parser of the component detector

\* C11: parseColorToRGB("oklch(100% 0 0)") returns pure white, r = g = b = 255
C11_OklchFullLightnessIsWhite ==
    (colorIn = "oklch(100% 0 0)" /\ parsed # NotCalled) => parsed = RGB(255, 255, 255)

\* the strings parseColorToRGB has been called with, in order
CallChain == <<colorIn>> \o parseCalls

\* C12: when the browser answers a conversion with the argument itself,
\* parseColorToRGB returns null and makes no call of itself on that string
C12_UnchangedAnswerGivesNull ==
    /\ (conversion # NotCalled /\ conversion.dom = conversion.color)
          => (parsed = Null /\ CurrentColor = conversion.color)
    /\ \A i \in 1..Len(CallChain), k \in 1..Len(CallChain) :
          CallChain[i] = CallChain[k] => i = k

\* the browser answered a nested call with its argument, and the call
\* returned null
C12_Witness ==
    /\ conversion # NotCalled
    /\ conversion.dom = conversion.color
    /\ parseCalls # <<>>
    /\ parsed = Null

\* C13: every result of parseColorToRGB other than null has whole r, g and
\* b in 0..255, whichever branch produced it
C13_ChannelsWithinByte ==
    (parsed # NotCalled /\ parsed # Null)
        => (parsed.r \in 0..255 /\ parsed.g \in 0..255 /\ parsed.b \in 0..255)

-----------------------------------------------------------------------------
\* Properties of the scanStyles listener

\* C14: the runs of extractStyles never interleave: at most one run is in
\* progress, a run starts only after the run before it has ended, and
\* between the start and the end of a run every step is that run's own
C14_RunsNeverInterleave ==
    /\ Cardinality(RunsOnStack) <= 1
    /\ \A p \in 1..Len(scanLog) :
          scanLog[p][1] = "start" => (p = 1 \/ scanLog[p - 1][1] = "end")
    /\ \A p \in 1..(Len(scanLog) - 1) :
          scanLog[p][1] # "end" => scanLog[p + 1][2] = scanLog[p][2]

\* a request waits while the run of another is in progress, after an
\* earlier run has failed
C14_Witness ==
    /\ inbox # <<>>
    /\ \E id \in RunsOnStack : runPos[id] = "styles"
    /\ \E k \in 1..Len(responses) : ~responses[k].success

-----------------------------------------------------------------------------
\* Properties of the shadow elevation groups

-----------------------------------------------------------------------------
\* Properties of the order of the clusters and of their representatives

\* the positions of the existing buttons the new button is similar to
SimilarTo(bs, newButton) == {i \in 1..Len(bs) : areButtonsSimilar(newButton, bs[i])}

\* C16: the existing buttons are tried in the order of their creation: when
\* the new button is similar to several of them, the count of the earliest
\* created goes up by one and every other button is left as it was
C16_EarliestSimilarCounts ==
    [][(/\ bpc = "run"
        /\ Len(elements') = Len(elements) + 1
        /\ SimilarTo(buttons, NewButton(elements'[Len(elements')])) # {})
          => LET first == Min(SimilarTo(buttons, NewButton(elements'[Len(elements')])))
             IN  /\ Len(buttons') = Len(buttons)
                 /\ buttons'[first].count = buttons[first].count + 1
                 /\ \A i \in 1..Len(buttons) : i # first => buttons'[i] = buttons[i]]_vars

\* the third button was similar to both existing buttons and went to the first
C16_Witness ==
    /\ bpc = "run"
    /\ Len(elements) = 3
    /\ Len(buttons) = 2
    /\ SimilarTo(<<Sample(1), Sample(2)>>, Sample(3)) = {1, 2}
    /\ buttons[1].count = 2
    /\ buttons[2].count = 1

\* C17: a button of the list is the first sample counted into it and stays
\* so: but for its count, every field (classes, styles, variant) is that of
\* the first sample, however many samples were merged into it
C17_RepresentativeIsFirstSample ==
    \A k \in 1..Len(buttons) :
        /\ [buttons[k] EXCEPT !.count = 1] = Sample(Min(members[k]))
        /\ buttons[k].count = Cardinality(members[k])

\* a button counts a later sample whose styles differ from its own
C17_Witness ==
    \E k \in 1..Len(buttons) :
        /\ buttons[k].count >= 2
        /\ \E i \in members[k] : Sample(i).styles # buttons[k].styles

-----------------------------------------------------------------------------
\* Properties of the table of custom properties

\* the custom property declarations parseCSSRules reads in a rule list, in
\* order, each with the theme of its rule; variant is "cs" for
\* contentScript.js and "bg" for background.ts, which reads the rules of theme
\* selectors only
RECURSIVE DeclarationsIn(_, _)
DeclarationsIn(rules, variant) ==
    IF rules = <<>> THEN <<>>
    ELSE LET rule == Head(rules)
             read == IF variant = "cs" THEN TRUE
                     ELSE rule.selectorText # "" /\ isThemeSelector(rule.selectorText)
             theme == IF variant = "cs" THEN getThemeFromSelector(rule.selectorText)
                      ELSE getThemeFromSelector_background(rule.selectorText)
         IN  (IF "cssRules" \in DOMAIN rule THEN DeclarationsIn(rule.cssRules, variant)
              ELSE IF "style" \notin DOMAIN rule \/ ~read THEN <<>>
              ELSE [j \in 1..Len(rule.style) |->
                      [name |-> rule.style[j].property, theme |-> theme,
                       value |-> trim(rule.style[j].value)]])
             \o DeclarationsIn(Tail(rules), variant)

RECURSIVE DeclarationsOfSheets(_, _)
DeclarationsOfSheets(lists, variant) ==
    IF lists = <<>> THEN <<>>
    ELSE DeclarationsIn(Head(lists), variant) \o DeclarationsOfSheets(Tail(lists), variant)

\* the declarations of custom properties among them
CustomDeclarations(variant) ==
    SelectSeq(DeclarationsOfSheets(sheets, variant), LAMBDA d : StartsAt(d.name, 1, "--"))

\* the table holds the pairs of the declarations and no others, and for each
\* pair the value of the last declaration of that pair
HoldsLast(table, decls) ==
    /\ \A i \in 1..Len(decls) :
          /\ decls[i].name \in DOMAIN table
          /\ decls[i].theme \in DOMAIN table[decls[i].name]
          /\ (\A k \in (i + 1)..Len(decls) :
                 decls[k].name # decls[i].name \/ decls[k].theme # decls[i].theme)
             => table[decls[i].name][decls[i].theme] = decls[i].value
    /\ \A n \in DOMAIN table : \A t \in DOMAIN table[n] :
          \E i \in 1..Len(decls) : decls[i].name = n /\ decls[i].theme = t

-----------------------------------------------------------------------------
\* Properties of the variant labels and of the background tolerance

EndsWith(s, suffix) == Len(s) >= Len(suffix) /\ StartsAt(s, Len(s) - Len(suffix) + 1, suffix)

\* the label without its size suffix
RECURSIVE BaseLabel(_)
BaseLabel(label) ==
    IF \E size \in {"-small", "-medium", "-large"} : EndsWith(label, size)
    THEN BaseLabel(SubSeq(label, 1,
             Len(label) - Len(CHOOSE size \in {"-small", "-medium", "-large"} :
                                  EndsWith(label, size))))
    ELSE label

\* every style factor of the similarity test passes
StyleFactorsPass(btn1, btn2) ==
    /\ BackgroundSimilar(btn1, btn2)
    /\ TextSimilar(btn1, btn2)
    /\ RadiusSimilar(btn1, btn2)
    /\ SizeSimilar(btn1, btn2)

\* the sample a button of the list was built from
FirstOf(k) == Min(members[k])

\* C19: the size suffix of a label does not keep two samples apart: no
\* sample founds a button of its own while an earlier button has the same
\* label up to the size suffix and every style factor passes between them
C19_SizeSuffixDoesNotPartition ==
    \A k \in 1..Len(buttons), l \in 1..Len(buttons) :
        ~ (/\ FirstOf(k) < FirstOf(l)
           /\ BaseLabel(buttons[k].variant) = BaseLabel(buttons[l].variant)
           /\ StyleFactorsPass(Sample(FirstOf(l)), buttons[k]))

\* the background of a button of the list or of a sample, as the test reads it
BackgroundOf(btn) == OrElse(btn.styles.background, "transparent")

\* the background is transparent or white
IsMinimal(bg) ==
    bg \in {"rgba(0, 0, 0, 0)", "transparent", "rgb(255, 255, 255)", "#ffffff"}

\* C20 as claimed: no button counts a sample whose background is further
\* from its own than 0.12 for a filled label, 0.20 for a ghost, outline or
\* link label
C20_BackgroundWithinTolerance ==
    \A k \in 1..Len(buttons) : \A i \in members[k] :
        ~Exceeds(calculateColorDistance(BackgroundOf(Sample(i)), BackgroundOf(buttons[k])),
                 IF isGhostOrOutline(buttons[k]) THEN 20 ELSE 12)

\* C20: no button counts a sample whose background is further from its own
\* than 0.12 for a filled label, 0.15 for a ghost, outline or link label,
\* unless the label is ghost, outline or link and each of the two
\* backgrounds is transparent or white
C20_BackgroundWithinToleranceUnlessMinimal ==
    \A k \in 1..Len(buttons) : \A i \in members[k] :
        \/ ~Exceeds(calculateColorDistance(BackgroundOf(Sample(i)), BackgroundOf(buttons[k])),
                    IF isGhostOrOutline(buttons[k]) THEN 15 ELSE 12)
        \/ /\ isGhostOrOutline(buttons[k])
           /\ IsMinimal(BackgroundOf(Sample(i)))
           /\ IsMinimal(BackgroundOf(buttons[k]))

\* a button counts a sample of another background within the tolerance,
\* and a sample of the same label has its own button because its background
\* is beyond the tolerance, every other factor passing
C20_Witness ==
    \E k \in 1..Len(buttons), l \in 1..Len(buttons) :
        /\ buttons[k].variant = buttons[l].variant
        /\ FirstOf(k) < FirstOf(l)
        /\ \E i \in members[k] : BackgroundOf(Sample(i)) # BackgroundOf(buttons[k])
        /\ Exceeds(calculateColorDistance(BackgroundOf(buttons[l]), BackgroundOf(buttons[k])),
                   IF isGhostOrOutline(buttons[k]) THEN 15 ELSE 12)
        /\ TextSimilar(buttons[l], buttons[k])
        /\ RadiusSimilar(buttons[l], buttons[k])
        /\ SizeSimilar(buttons[l], buttons[k])

\* the background is transparent, or within 0.05 of white
TransparentOrNearWhite(bg) ==
    \/ bg \in {"rgba(0, 0, 0, 0)", "transparent"}
    \/ ~Exceeds(calculateColorDistance(bg, "rgb(255, 255, 255)"), 5)

\* C21: for a ghost, outline or link label the background factor passes
\* between every two samples of that label whose backgrounds are each
\* transparent or near-white
C21_TransparentAndNearWhiteInterchangeable ==
    \A i \in 1..Len(elements), j \in 1..Len(elements) :
        (/\ isGhostOrOutline(Sample(i))
         /\ Sample(i).variant = Sample(j).variant
         /\ TransparentOrNearWhite(BackgroundOf(Sample(i)))
         /\ TransparentOrNearWhite(BackgroundOf(Sample(j))))
        => BackgroundSimilar(Sample(i), Sample(j))

-----------------------------------------------------------------------------
\* Properties of the font-size and padding gaps

\* C22: no button counts a sample whose font size is more than 6px from its
\* own, nor one whose font size is more than 4px from its own while the
\* padding is more than 6px from its own
C22_FontGapBounded ==
    \A k \in 1..Len(buttons) : \A i \in members[k] :
        /\ ~(FontDiff(Sample(i), buttons[k]) > 6)
        /\ ~(FontDiff(Sample(i), buttons[k]) > 4 /\ PaddingDiff(Sample(i), buttons[k]) > 6)

\* a button counts a sample 5px away in font size and 4px away in padding,
\* and a sample 5px away in font size and 8px away in padding has a button
\* of its own
C22_Witness ==
    /\ \E k \in 1..Len(buttons) : \E i \in members[k] :
           /\ FontDiff(Sample(i), buttons[k]) = 5
           /\ PaddingDiff(Sample(i), buttons[k]) = 4
    /\ \E k \in 1..Len(buttons), l \in 1..Len(buttons) :
           /\ FirstOf(k) < FirstOf(l)
           /\ FontDiff(buttons[l], buttons[k]) = 5
           /\ PaddingDiff(buttons[l], buttons[k]) = 8

-----------------------------------------------------------------------------
\* Properties of the counts

\* the sum of the counts of the first k buttons
RECURSIVE CountSum(_, _)
CountSum(bs, k) == IF k = 0 THEN 0 ELSE bs[k].count + CountSum(bs, k - 1)

\* C25: throughout the pass and after the final sort every button has a
\* count of at least 1 and the counts add up to the number of elements
\* visited
C25_CountsAddUpToSamples ==
    /\ \A k \in 1..Len(buttons) : buttons[k].count >= 1
    /\ CountSum(buttons, Len(buttons)) = Len(elements)

\* three elements visited, two buttons, one of them counting two elements
C25_Witness ==
    /\ bpc = "run"
    /\ Len(elements) = 3
    /\ Len(buttons) = 2
    /\ \E k \in 1..2 : buttons[k].count = 2

-----------------------------------------------------------------------------
\* Properties of the listener's responses

\* the responses sent for the message id
ResponsesTo(id) == {k \in 1..Len(responses) : responses[k].request = id}

\* C26: a scanStyles message has exactly one response once the listener has
\* returned from it, success or failure, and none before; a message with
\* another action has none
C26_ExactlyOneResponse ==
    \A id \in 1..Len(runPos) :
        Cardinality(ResponsesTo(id))
            = IF msgAction[id] = "scanStyles" /\ runPos[id] = "done" THEN 1 ELSE 0

\* one scan was answered with its data, one with an error, and the listener
\* has returned from a message with another action
C26_Witness ==
    /\ \E k \in 1..Len(responses) : responses[k].success
    /\ \E k \in 1..Len(responses) : ~responses[k].success
    /\ \E id \in 1..Len(runPos) : msgAction[id] # "scanStyles" /\ runPos[id] = "done"

-----------------------------------------------------------------------------
\* Properties of the popup's status block

\* the status block shows an error message
ErrorVisible == statusClass = "error" /\ statusDisplay = "block"

\* C27: an error message stays shown from the call of showError until the
\* next click of the user: while nothing was clicked since the message
\* appeared, no step other than a click hides or replaces it
C27_ErrorStaysVisible ==
    [][(ErrorVisible /\ clicksAtError = clicks /\ clicks' = clicks) => ErrorVisible']_vars

-----------------------------------------------------------------------------
\* Properties of the caches

\* C29: after clearCaches no cache holds anything made before the call: the
\* cached element list, if any, comes from a scan after it, and every style
\* object in the map was computed after it
C29_NoCacheSurvivesClear ==
    /\ cachedElements # Null => cachedElements.scan > opsAtClear
    /\ \A el \in DOMAIN computedStyleCache : computedStyleCache[el] > opsAtClear

-----------------------------------------------------------------------------
\* Properties of the DOM tree extraction

\* C30: the tree that extractDOMTree returns has at most MAX_TREE_NODES
\* nodes, whatever the page
C30_AtMostMaxTreeNodes ==
    treeResult # NotCalled => treeResult.nodeCount <= MAX_TREE_NODES

-----------------------------------------------------------------------------
\* Properties of parseColorToRGB with a deterministic browser

\* C28: parseColorToRGB never calls itself on a string it was already
\* called with: with answers that are a function of the string, such a
\* call repeats the calls in between for ever
C28_RecursionThroughOracleBounded ==
    \A i \in 1..Len(CallChain), k \in 1..Len(CallChain) :
        i < k => CallChain[i] # CallChain[k]

=============================================================================
